---- MODULE Spec2Model ----
(***************************************************************************)
(* Verification model of the construction-safety-expert ingestion          *)
(* pipeline: the knowledge store (orchestrator/knowledge_base_manager.py), *)
(* the text cleaner and chunker (orchestrator/document_processor.py) and   *)
(* the normalization pipeline (tools/kb_pipeline.py).                      *)
(*                                                                         *)
(* Text is modelled character by character: a Python str is a sequence of  *)
(* one-character strings, so lower(), strip(), split() and the regular     *)
(* expressions of the source are computed, not assumed.  Characters that   *)
(* are not ASCII are written as named one-element tokens ("<bullet>").     *)
(***************************************************************************)
EXTENDS Integers, Sequences, FiniteSets, TLC

(***************************************************************************)
(* State                                                                   *)
(***************************************************************************)
VARIABLES
    \* the knowledge store
    kb_files,        \* partition -> <partition>_base.json: NoFile or File(list of entries)
    content_hashes,  \* .import_metadata.json "content_hashes": partition -> list of hashes
    imported_documents,  \* .import_metadata.json "imported_documents": filename -> record
    last,            \* the last call on the store: arguments, state before it, outcome
    repeated,        \* the call before it, when the last call is an append, a save or a
                     \* duplicate query that repeats it
    \* clean_text
    clean_pc,        \* the step of clean_text that runs next, or "idle", "returned"
    clean_arg,       \* the text argument of the running call
    clean_work,      \* the local variable text
    clean_calls,     \* the calls completed so far: [text, returned]
    \* chunk_text
    chunk_pc,        \* "idle", "start", "loop", "post", "returned"
    chunk_args,      \* [text, category]
    chunk_paragraphs,       \* paragraphs: the stripped non-empty paragraphs of the text
    chunk_i,                \* the loop index i (from 1)
    chunk_list,             \* chunks: the chunks closed so far; the return value once returned
    chunk_current,          \* current_chunk: the accumulating buffer
    chunk_title,            \* current_title
    chunk_force_split_ran,  \* whether _force_split_large_chunks was called
    \* kb_pipeline.main
    pipe_pc,         \* "idle", "run", "done"
    pipe_files,      \* files: the partitions whose files list_kb_files found
    pipe_stage,      \* the position in stages (from 1)
    pipe_file,       \* the position in files (from 1)
    pipe_after,      \* the partition files as each completed run of main left them
    pipe_last,       \* the last call of a stage on a file: what it did to the file system
    backups,         \* knowledge_base/backups: a set of [base, ts, suffix, entries]
    clock,           \* the second ts() reads
    \* a writer of a JSON file and a concurrent reader
    io_pc,           \* "idle", "called", "open", "closed": the writer's position
    io_call,         \* [op, path, data]: the writing call
    io_disk,         \* path -> the chunks of JSON text the file holds on disk
    io_old,          \* io_disk when the call started
    io_buffer,       \* the chunks written to the file object and not yet flushed
    io_written,      \* how many chunks json.dump has passed to f.write
    io_seen,         \* what the reader's last read returned: [path, content]
    \* the upload flow of the application
    upload_pc,       \* "idle", "process", "append", "record", "done", "skipped", "failed"
    upload_name,     \* uploaded_file.name
    upload_before,   \* the partition files and the metadata when the button was pressed
    upload_chunks,   \* categorized_chunks: partition -> list of chunks
    upload_k,        \* the position of the loop over categorized_chunks (from 1)
    upload_total_saved,  \* total_saved
    upload_log,      \* what the flow has done since the button was pressed
    upload_count     \* how many times the button was pressed

storeVars == <<kb_files, content_hashes, imported_documents, last, repeated>>
cleanVars == <<clean_pc, clean_arg, clean_work, clean_calls>>
chunkVars == <<chunk_pc, chunk_args, chunk_paragraphs, chunk_i, chunk_list, chunk_current,
               chunk_title, chunk_force_split_ran>>
pipeVars == <<pipe_pc, pipe_files, pipe_stage, pipe_file, pipe_after, pipe_last, backups, clock>>
ioVars == <<io_pc, io_call, io_disk, io_old, io_buffer, io_written, io_seen>>
uploadVars == <<upload_pc, upload_name, upload_before, upload_chunks, upload_k,
                upload_total_saved, upload_log, upload_count>>
vars == <<storeVars, cleanVars, chunkVars, pipeVars, ioVars, uploadVars>>

(***************************************************************************)
(* Python str primitives                                                   *)
(***************************************************************************)
UpperLetters == <<"A","B","C","D","E","F","G","H","I","J","K","L","M",
                  "N","O","P","Q","R","S","T","U","V","W","X","Y","Z">>
LowerLetters == <<"a","b","c","d","e","f","g","h","i","j","k","l","m",
                  "n","o","p","q","r","s","t","u","v","w","x","y","z">>
UpperSet == {UpperLetters[i] : i \in DOMAIN UpperLetters}
LowerSet == {LowerLetters[i] : i \in DOMAIN LowerLetters}
DigitSet == {"0","1","2","3","4","5","6","7","8","9"}
Whitespace == {" ", "\n", "\t", "\r"}
AlphaSet == UpperSet \cup LowerSet
WordChars == AlphaSet \cup DigitSet \cup {"_"}

LowerMap == [c \in UpperSet |-> LowerLetters[CHOOSE i \in DOMAIN UpperLetters : UpperLetters[i] = c]]
UpperMap == [c \in LowerSet |-> UpperLetters[CHOOSE i \in DOMAIN LowerLetters : LowerLetters[i] = c]]
LowerChar(c) == IF c \in UpperSet THEN LowerMap[c] ELSE c
UpperChar(c) == IF c \in LowerSet THEN UpperMap[c] ELSE c

SetMin(S) == CHOOSE m \in S : \A n \in S : m <= n
SetMax(S) == CHOOSE m \in S : \A n \in S : m >= n

\* str.lower()
str_lower(s) == [i \in 1..Len(s) |-> LowerChar(s[i])]

\* the first index j >= i with s[j] not in S (Len(s) + 1 if none): where a
\* greedy character-class repetition S* started at i stops
RECURSIVE SkipSet(_, _, _)
SkipSet(s, i, S) ==
    IF i > Len(s) THEN Len(s) + 1
    ELSE IF s[i] \notin S THEN i
    ELSE SkipSet(s, i + 1, S)

\* the last index j <= i with s[j] not in S (0 if none)
RECURSIVE SkipSetBack(_, _, _)
SkipSetBack(s, i, S) ==
    IF i < 1 THEN 0
    ELSE IF s[i] \notin S THEN i
    ELSE SkipSetBack(s, i - 1, S)

\* str.strip()
str_strip(s) == SubSeq(s, SkipSet(s, 1, Whitespace), SkipSetBack(s, Len(s), Whitespace))

\* str.rstrip()
str_rstrip(s) == SubSeq(s, 1, SkipSetBack(s, Len(s), Whitespace))

\* pieces[lo] \o ... \o pieces[hi], halving the range so that the evaluation
\* nests only logarithmically deep in the number of pieces
RECURSIVE Flatten(_, _, _)
Flatten(pieces, lo, hi) ==
    IF lo > hi THEN <<>>
    ELSE IF lo = hi THEN pieces[lo]
    ELSE Flatten(pieces, lo, (lo + hi) \div 2) \o Flatten(pieces, (lo + hi) \div 2 + 1, hi)

\* the first index j >= i with s[j] in S (Len(s) + 1 if none)
FirstIn(s, i, S) ==
    LET found == {j \in i..Len(s) : s[j] \in S}
    IN  IF found = {} THEN Len(s) + 1 ELSE SetMin(found)

\* str.split() with no argument: the maximal runs of non-whitespace, each
\* taken where it starts
split_ws_from(s, i) ==
    IF s[i] \notin Whitespace /\ (i = 1 \/ s[i - 1] \in Whitespace)
    THEN <<SubSeq(s, i, FirstIn(s, i, Whitespace) - 1)>>
    ELSE <<>>
str_split(s) == Flatten([i \in 1..Len(s) |-> split_ws_from(s, i)], 1, Len(s))

\* sep.join(parts)
str_join(sep, parts) ==
    Flatten([k \in 1..Len(parts) |-> IF k = 1 THEN parts[1] ELSE sep \o parts[k]],
            1, Len(parts))

\* s[i:].startswith(sub), i counted from 1
MatchesAt(s, i, sub) ==
    /\ i + Len(sub) - 1 <= Len(s)
    /\ \A k \in 1..Len(sub) : s[i + k - 1] = sub[k]
str_startswith(s, sub) == MatchesAt(s, 1, sub)
str_endswith(s, sub) == Len(sub) <= Len(s) /\ MatchesAt(s, Len(s) - Len(sub) + 1, sub)
\* sub in s
str_contains(s, sub) == \E i \in 1..(Len(s) + 1) : MatchesAt(s, i, sub)

SeqToSet(q) == {q[i] : i \in DOMAIN q}

\* str.split(sep): the pieces between the non-overlapping occurrences of sep
RECURSIVE split_on_from(_, _, _, _)
split_on_from(s, sep, start, acc) ==
    LET hits == {j \in start..(Len(s) - Len(sep) + 1) : MatchesAt(s, j, sep)}
    IN  IF hits = {} THEN Append(acc, SubSeq(s, start, Len(s)))
        ELSE split_on_from(s, sep, SetMin(hits) + Len(sep),
                           Append(acc, SubSeq(s, start, SetMin(hits) - 1)))
str_split_on(s, sep) == split_on_from(s, sep, 1, <<>>)

\* str.isupper(): some cased character and no lower-case one
str_isupper(s) ==
    /\ \E i \in DOMAIN s : s[i] \in UpperSet
    /\ \A i \in DOMAIN s : s[i] \notin LowerSet

\* the elements of q that satisfy keep, in order
SelectIdx(q, keep, i) ==
    Flatten([k \in 1..Len(q) |-> IF k \in keep THEN <<q[k]>> ELSE <<>>], i, Len(q))

\* re.sub(c{n,}, c*m, s): every run of at least n characters c becomes m of them
\* what position i contributes: a character other than c itself, the first
\* character of a run the (replaced) run, the rest of a run nothing
collapse_runs_from(s, c, n, m, i) ==
    IF s[i] # c THEN <<s[i]>>
    ELSE IF i > 1 /\ s[i - 1] = c THEN <<>>
    ELSE LET j == SkipSet(s, i, {c})
         IN  IF j - i >= n THEN [k \in 1..m |-> c] ELSE SubSeq(s, i, j - 1)
collapse_runs(s, c, n, m) ==
    Flatten([i \in 1..Len(s) |-> collapse_runs_from(s, c, n, m, i)], 1, Len(s))

(***************************************************************************)
(* Text cleaner and chunker: orchestrator/document_processor.py            *)
(***************************************************************************)
\* UNWANTED_SECTION_HEADERS of the form ^...$ (acknowledgments? written out)
UNWANTED_SECTION_EXACT == {
    <<"t","a","b","l","e"," ","o","f"," ","c","o","n","t","e","n","t","s">>,
    <<"l","i","s","t"," ","o","f"," ","f","i","g","u","r","e","s">>,
    <<"l","i","s","t"," ","o","f"," ","t","a","b","l","e","s">>,
    <<"p","r","e","f","a","c","e">>,
    <<"f","o","r","e","w","o","r","d">>,
    <<"r","e","f","e","r","e","n","c","e","s">>,
    <<"b","i","b","l","i","o","g","r","a","p","h","y">>,
    <<"w","o","r","k","s"," ","c","i","t","e","d">>,
    <<"a","p","p","e","n","d","i","c","e","s">>,
    <<"e","n","d","n","o","t","e","s">>,
    <<"f","o","o","t","n","o","t","e","s">>,
    <<"g","l","o","s","s","a","r","y">>,
    <<"i","n","d","e","x">>,
    <<"a","c","k","n","o","w","l","e","d","g","m","e","n","t">>,
    <<"a","c","k","n","o","w","l","e","d","g","m","e","n","t","s">>,
    <<"a","b","o","u","t"," ","t","h","e"," ","a","u","t","h","o","r">>
}
\* UNWANTED_SECTION_HEADERS of the form ^... (r"^appendix")
UNWANTED_SECTION_PREFIX == {
    <<"a","p","p","e","n","d","i","x">>
}
\* UNWANTED_PHRASES anchored with ^
UNWANTED_PHRASES_PREFIX == {
    <<"c","o","p","y","r","i","g","h","t">>,
    <<"i","s","b","n">>
}
\* UNWANTED_PHRASES found anywhere (alternations written out)
UNWANTED_PHRASES_ANYWHERE == {
    <<"<copyright>">>,
    <<"a","l","l"," ","r","i","g","h","t","s"," ","r","e","s","e","r","v","e","d">>,
    <<"p","u","b","l","i","s","h","e","d"," ","b","y">>,
    <<"p","u","b","l","i","c","a","t","i","o","n"," ","d","a","t","e">>,
    <<"t","h","i","s"," ","b","o","o","k"," ","w","i","l","l">>,
    <<"t","h","i","s"," ","b","o","o","k"," ","s","h","a","l","l">>,
    <<"t","h","i","s"," ","b","o","o","k"," ","a","i","m","s"," ","t","o">>,
    <<"t","h","i","s"," ","b","o","o","k"," ","i","s"," ","d","e","s","i","g","n","e","d"," ","t","o">>,
    <<"t","h","i","s"," ","d","o","c","u","m","e","n","t"," ","w","i","l","l">>,
    <<"t","h","i","s"," ","d","o","c","u","m","e","n","t"," ","s","h","a","l","l">>,
    <<"t","h","i","s"," ","d","o","c","u","m","e","n","t"," ","a","i","m","s"," ","t","o">>,
    <<"t","h","i","s"," ","d","o","c","u","m","e","n","t"," ","i","s"," ","d","e","s","i","g","n","e","d"," ","t","o">>,
    <<"t","h","i","s"," ","g","u","i","d","e"," ","w","i","l","l">>,
    <<"t","h","i","s"," ","g","u","i","d","e"," ","s","h","a","l","l">>,
    <<"t","h","i","s"," ","g","u","i","d","e"," ","a","i","m","s"," ","t","o">>,
    <<"t","h","i","s"," ","g","u","i","d","e"," ","i","s"," ","d","e","s","i","g","n","e","d"," ","t","o">>,
    <<"t","h","i","s"," ","m","a","n","u","a","l"," ","w","i","l","l">>,
    <<"t","h","i","s"," ","m","a","n","u","a","l"," ","s","h","a","l","l">>,
    <<"t","h","i","s"," ","m","a","n","u","a","l"," ","a","i","m","s"," ","t","o">>,
    <<"t","h","i","s"," ","m","a","n","u","a","l"," ","i","s"," ","d","e","s","i","g","n","e","d"," ","t","o">>,
    <<"t","h","i","s"," ","c","h","a","p","t","e","r"," ","w","i","l","l">>,
    <<"t","h","i","s"," ","c","h","a","p","t","e","r"," ","s","h","a","l","l">>,
    <<"t","h","i","s"," ","c","h","a","p","t","e","r"," ","a","i","m","s"," ","t","o">>,
    <<"t","h","i","s"," ","c","h","a","p","t","e","r"," ","i","s"," ","d","e","s","i","g","n","e","d"," ","t","o">>,
    <<"i","n"," ","t","h","i","s"," ","c","h","a","p","t","e","r",","," ","w","e"," ","w","i","l","l">>,
    <<"i","n"," ","t","h","i","s"," ","c","h","a","p","t","e","r",","," ","y","o","u"," ","w","i","l","l">>,
    <<"i","n"," ","t","h","i","s"," ","s","e","c","t","i","o","n",","," ","w","e"," ","w","i","l","l">>,
    <<"i","n"," ","t","h","i","s"," ","s","e","c","t","i","o","n",","," ","y","o","u"," ","w","i","l","l">>,
    <<"a","b","o","u","t"," ","t","h","i","s"," ","b","o","o","k">>,
    <<"a","b","o","u","t"," ","t","h","i","s"," ","d","o","c","u","m","e","n","t">>,
    <<"a","b","o","u","t"," ","t","h","i","s"," ","g","u","i","d","e">>,
    <<"a","b","o","u","t"," ","t","h","i","s"," ","m","a","n","u","a","l">>,
    <<"f","o","r"," ","m","o","r","e"," ","i","n","f","o","r","m","a","t","i","o","n",","," ","v","i","s","i","t">>,
    <<"f","o","r"," ","m","o","r","e"," ","i","n","f","o","r","m","a","t","i","o","n",","," ","s","e","e">>,
    <<"f","o","r"," ","m","o","r","e"," ","i","n","f","o","r","m","a","t","i","o","n",","," ","c","o","n","t","a","c","t">>,
    <<"v","i","s","i","t"," ","o","u","r"," ","w","e","b","s","i","t","e">>,
    <<"w","w","w",".">>,
    <<"h","t","t","p",":","/","/">>,
    <<"h","t","t","p","s",":","/","/">>,
    <<"e","m","a","i","l",":">>,
    <<"c","o","n","t","a","c","t"," ","u","s">>,
    <<"@">>,
    <<"t","r","a","d","e","m","a","r","k">>,
    <<"d","i","s","c","l","a","i","m","e","r">>
}
\* topic_change_indicators without a number
TOPIC_CHANGE_WORDS == {
    <<"h","o","w","e","v","e","r">>,
    <<"m","e","a","n","w","h","i","l","e">>,
    <<"i","n"," ","c","o","n","t","r","a","s","t">>,
    <<"o","n"," ","t","h","e"," ","o","t","h","e","r"," ","h","a","n","d">>,
    <<"a","l","t","e","r","n","a","t","i","v","e","l","y">>,
    <<"i","m","p","o","r","t","a","n","t">>,
    <<"n","o","t","e">>,
    <<"w","a","r","n","i","n","g">>,
    <<"c","a","u","t","i","o","n">>,
    <<"r","e","m","e","m","b","e","r">>
}
\* topic_change_indicators followed by \d+
TOPIC_CHANGE_NUMBERED == {
    <<"s","t","e","p"," ">>,
    <<"p","h","a","s","e"," ">>,
    <<"p","a","r","t"," ">>
}


\* the chunk size window (DocumentProcessor.__init__)
min_chunk_size == 200
max_chunk_size == 800
target_chunk_size == 500

\* any(re.match(p, para_lower, re.IGNORECASE) for p in UNWANTED_SECTION_HEADERS)
is_unwanted_section_header(para_lower) ==
    \/ para_lower \in UNWANTED_SECTION_EXACT
    \/ \E pre \in UNWANTED_SECTION_PREFIX : str_startswith(para_lower, pre)

\* r'^(chapter\s+)?\d+[\.:]\s+[A-Z]' with re.IGNORECASE
matches_numbered_heading(t) ==
    LET start == IF str_startswith(str_lower(t), <<"c","h","a","p","t","e","r">>)
                 THEN (IF SkipSet(t, 8, Whitespace) > 8 THEN SkipSet(t, 8, Whitespace) ELSE 0)
                 ELSE 1
        d == SkipSet(t, start, DigitSet)
        w == SkipSet(t, d + 1, Whitespace)
    IN  /\ start > 0
        /\ d > start /\ d <= Len(t) /\ t[d] \in {".", ":"}
        /\ w > d + 1 /\ w <= Len(t) /\ t[w] \in AlphaSet

\* r'^\d+\.\d+\s+[A-Z]'
matches_section_number(t) ==
    LET d1 == SkipSet(t, 1, DigitSet)
        d2 == SkipSet(t, d1 + 1, DigitSet)
        w == SkipSet(t, d2, Whitespace)
    IN  /\ d1 > 1 /\ d1 <= Len(t) /\ t[d1] = "."
        /\ d2 > d1 + 1
        /\ w > d2 /\ w <= Len(t) /\ t[w] \in UpperSet

\* len(re.findall(r'\b[A-Z]{2,}\b', t)): the words (maximal runs of \w) made
\* of two or more upper-case letters only
all_caps_words(t) ==
    Cardinality({i \in DOMAIN t :
        /\ t[i] \in WordChars
        /\ (i = 1 \/ t[i - 1] \notin WordChars)
        /\ SkipSet(t, i, WordChars) - i >= 2
        /\ \A k \in i..(SkipSet(t, i, WordChars) - 1) : t[k] \in UpperSet})

\* _is_section_header
is_section_header(text) ==
    LET text_stripped == str_strip(text)
        words == str_split(text_stripped)
    IN  \/ Len(text_stripped) < 100 /\ str_isupper(text_stripped) /\ Len(text_stripped) > 5
        \/ matches_numbered_heading(text_stripped)
        \/ matches_section_number(text_stripped)
        \/ /\ Len(text_stripped) < 100
           /\ Len(words) >= 2 /\ Len(words) <= 8
           /\ \A k \in DOMAIN words : words[k][1] \in UpperSet
           /\ ~str_endswith(text_stripped, <<".">>)
        \/ Len(text_stripped) < 100 /\ all_caps_words(text_stripped) >= 2

\* _remove_unwanted_sections: the for loop; st = [kept, skip]
RECURSIVE remove_sections_loop(_, _, _)
remove_sections_loop(paragraphs, i, st) ==
    IF i > Len(paragraphs) THEN st
    ELSE LET para == paragraphs[i]
             para_lower == str_lower(str_strip(para))
         IN  IF is_unwanted_section_header(para_lower)
             THEN remove_sections_loop(paragraphs, i + 1, [st EXCEPT !.skip = TRUE])
             ELSE IF st.skip
             THEN IF is_section_header(para) /\ ~is_unwanted_section_header(para_lower)
                  THEN remove_sections_loop(paragraphs, i + 1,
                           [kept |-> Append(st.kept, para), skip |-> FALSE])
                  ELSE remove_sections_loop(paragraphs, i + 1, st)
             ELSE remove_sections_loop(paragraphs, i + 1, [st EXCEPT !.kept = Append(@, para)])
\* (mutation: only the unwanted headers themselves are dropped)
remove_unwanted_sections_headers_only(text) ==
    LET paragraphs == str_split_on(text, <<"\n", "\n">>)
    IN  str_join(<<"\n", "\n">>,
                 SelectIdx(paragraphs,
                           {i \in DOMAIN paragraphs :
                               ~is_unwanted_section_header(str_lower(str_strip(paragraphs[i])))},
                           1))
remove_unwanted_sections(text) ==
    str_join(<<"\n", "\n">>,
             remove_sections_loop(str_split_on(text, <<"\n", "\n">>), 1,
                                  [kept |-> <<>>, skip |-> FALSE]).kept)

\* any(re.search(p, para_lower, re.IGNORECASE) for p in UNWANTED_PHRASES)
contains_unwanted_phrase(para_lower) ==
    \/ \E pre \in UNWANTED_PHRASES_PREFIX : str_startswith(para_lower, pre)
    \/ \E phrase \in UNWANTED_PHRASES_ANYWHERE : str_contains(para_lower, phrase)

\* _filter_paragraphs: whether the paragraph is kept
filter_keeps(para) ==
    LET para_stripped == str_strip(para)
        alpha_chars == Cardinality({i \in DOMAIN para : para[i] \in AlphaSet})
    IN  IF contains_unwanted_phrase(str_lower(para)) THEN FALSE
        ELSE IF is_section_header(para_stripped) THEN TRUE
        ELSE IF Len(para_stripped) < 15 THEN FALSE
        ELSE IF Len(para) > 30 /\ 10 * alpha_chars < 3 * Len(para) THEN FALSE
        ELSE TRUE
filter_paragraphs(text) ==
    LET paragraphs == str_split_on(text, <<"\n", "\n">>)
    IN  str_join(<<"\n", "\n">>,
                 SelectIdx(paragraphs, {i \in DOMAIN paragraphs : filter_keeps(paragraphs[i])}, 1))

\* any(re.match(p, line_lower, re.IGNORECASE) for p in PAGE_MARKERS)
is_page_marker(l) ==
    LET d == SkipSet(l, 1, DigitSet)           \* after the leading digits
        ws == SkipSet(l, d, Whitespace)        \* after whitespace following them
    IN  \* r"page \d+" and r"^page \d+ of \d+"
        \/ str_startswith(l, <<"p","a","g","e"," ">>) /\ SkipSet(l, 6, DigitSet) > 6
        \* r"^\d+$"
        \/ d > 1 /\ d = Len(l) + 1
        \* r"^\d+\s*\|"
        \/ d > 1 /\ ws <= Len(l) /\ l[ws] = "|"
        \* r"\|\s*\d+$"
        \/ /\ Len(l) >= 1 /\ l[1] = "|"
           /\ SkipSet(l, SkipSet(l, 2, Whitespace), DigitSet) = Len(l) + 1
           /\ SkipSet(l, 2, Whitespace) <= Len(l)
        \* r"^\d+\s*/\s*\d+$"
        \/ /\ d > 1 /\ ws <= Len(l) /\ l[ws] = "/"
           /\ SkipSet(l, ws + 1, Whitespace) <= Len(l)
           /\ SkipSet(l, SkipSet(l, ws + 1, Whitespace), DigitSet) = Len(l) + 1
        \* r"^chapter \d+$"
        \/ /\ str_startswith(l, <<"c","h","a","p","t","e","r"," ">>)
           /\ Len(l) >= 9 /\ SkipSet(l, 9, DigitSet) = Len(l) + 1
        \* r"^section \d+\.?\d*$"
        \/ /\ str_startswith(l, <<"s","e","c","t","i","o","n"," ">>)
           /\ SkipSet(l, 9, DigitSet) > 9
           /\ LET e == SkipSet(l, 9, DigitSet)
              IN  \/ e = Len(l) + 1
                  \/ l[e] = "." /\ SkipSet(l, e + 1, DigitSet) = Len(l) + 1
        \* r"^\d+\.\d+$"
        \/ /\ d > 1 /\ d <= Len(l) /\ l[d] = "."
           /\ d + 1 <= Len(l) /\ SkipSet(l, d + 1, DigitSet) = Len(l) + 1

\* _remove_page_markers: whether the line is kept
page_marker_keeps(line) ==
    LET stripped == str_strip(line)
    IN  IF stripped = <<>> THEN TRUE
        ELSE IF is_page_marker(str_strip(str_lower(line))) THEN FALSE
        ELSE IF Len(stripped) < 10 THEN FALSE
        ELSE IF Cardinality(SeqToSet(stripped)) <= 3 THEN FALSE
        ELSE TRUE
remove_page_markers(text) ==
    LET lines == str_split_on(text, <<"\n">>)
    IN  str_join(<<"\n">>, SelectIdx(lines, {i \in DOMAIN lines : page_marker_keeps(lines[i])}, 1))

\* _remove_repeated_content: the for loop; st = [unique, seen]
RECURSIVE remove_repeated_loop(_, _, _)
remove_repeated_loop(paragraphs, i, st) ==
    IF i > Len(paragraphs) THEN st
    ELSE LET para == paragraphs[i]
             para_clean == str_lower(str_strip(para))
         IN  IF para_clean \in st.seen THEN remove_repeated_loop(paragraphs, i + 1, st)
             ELSE IF Len(para_clean) < 30
             THEN remove_repeated_loop(paragraphs, i + 1, [st EXCEPT !.unique = Append(@, para)])
             ELSE remove_repeated_loop(paragraphs, i + 1,
                      [unique |-> Append(st.unique, para), seen |-> st.seen \cup {para_clean}])
remove_repeated_content(text) ==
    str_join(<<"\n", "\n">>,
             remove_repeated_loop(str_split_on(text, <<"\n", "\n">>), 1,
                                  [unique |-> <<>>, seen |-> {}]).unique)

\* step 5 of clean_text: \n{3,} -> \n\n, then ' '{2,} -> ' ', then strip
clean_whitespace_step(text) ==
    str_strip(collapse_runs(collapse_runs(text, "\n", 3, 2), " ", 2, 1))

\* clean_text
clean_text(text) ==
    clean_whitespace_step(remove_repeated_content(remove_page_markers(
        filter_paragraphs(remove_unwanted_sections(text)))))

\* _is_list_item
is_list_item(text) ==
    LET t == str_strip(text)
        d == SkipSet(t, 1, DigitSet)
    IN  \* r'^[\-\*\<bullet>]\s+'
        \/ Len(t) >= 2 /\ t[1] \in {"-", "*", "<bullet>"} /\ t[2] \in Whitespace
        \* r'^\d+[\.\)]\s+'
        \/ d > 1 /\ d + 1 <= Len(t) /\ t[d] \in {".", ")"} /\ t[d + 1] \in Whitespace
        \* r'^[a-zA-Z][\.\)]\s+'
        \/ Len(t) >= 3 /\ t[1] \in AlphaSet /\ t[2] \in {".", ")"} /\ t[3] \in Whitespace

\* _is_topic_change (current_para is not looked at by the source either)
is_topic_change(current_para, next_para) ==
    LET next_lower == str_strip(str_lower(next_para))
    IN  \/ \E w \in TOPIC_CHANGE_WORDS : str_startswith(next_lower, w)
        \/ \E w \in TOPIC_CHANGE_NUMBERED :
               /\ str_startswith(next_lower, w)
               /\ Len(next_lower) > Len(w) /\ next_lower[Len(w) + 1] \in DigitSet

\* [p.strip() for p in text.split('\n\n') if p.strip()]
split_paragraphs(text) ==
    LET parts == str_split_on(text, <<"\n", "\n">>)
        stripped == [k \in DOMAIN parts |-> str_strip(parts[k])]
    IN  SelectIdx(stripped, {k \in DOMAIN stripped : stripped[k] # <<>>}, 1)

\* s[:n]
str_prefix(s, n) == SubSeq(s, 1, IF Len(s) < n THEN Len(s) ELSE n)

\* str(n) for the part numbers of _force_split_large_chunks
RECURSIVE str_of_nat(_)
str_of_nat(n) ==
    LET digits == <<"0","1","2","3","4","5","6","7","8","9">>
    IN  IF n < 10 THEN <<digits[n + 1]>> ELSE Append(str_of_nat(n \div 10), digits[(n % 10) + 1])

\* (mutation: the content of a chunk opens with its title)
new_chunk_with_heading(title, content, category) ==
    [title |-> title, content |-> title \o <<"\n", "\n">> \o str_strip(content),
     category |-> category]
\* the record chunk_text appends to chunks
new_chunk(title, content, category) ==
    [title |-> title, content |-> str_strip(content), category |-> category]

\* (mutation: at target size the end of a list is no break point)
should_split_inside_lists_only(paragraphs, i, current_chunk) ==
    LET para == paragraphs[i]
        has_next == i + 1 <= Len(paragraphs)
        next_is_list == has_next /\ is_list_item(paragraphs[i + 1])
    IN  IF Len(current_chunk) >= max_chunk_size THEN TRUE
        ELSE IF Len(current_chunk) >= target_chunk_size
        THEN /\ has_next
             /\ \/ is_section_header(paragraphs[i + 1])
                \/ ~next_is_list /\ ~is_list_item(para)
        ELSE IF Len(current_chunk) >= min_chunk_size
        THEN /\ has_next
             /\ \/ is_section_header(paragraphs[i + 1])
                \/ is_topic_change(para, paragraphs[i + 1]) /\ ~is_list_item(para)
        ELSE FALSE
\* chunk_text: whether the buffer is closed after paragraph i was added
\* (paragraphs are numbered from 1; the source numbers them from 0)
should_split(paragraphs, i, current_chunk) ==
    LET para == paragraphs[i]
        has_next == i + 1 <= Len(paragraphs)
        next_is_list == has_next /\ is_list_item(paragraphs[i + 1])
    IN  IF Len(current_chunk) >= max_chunk_size THEN TRUE
        ELSE IF Len(current_chunk) >= target_chunk_size
        THEN /\ has_next
             /\ \/ is_section_header(paragraphs[i + 1])
                \/ ~next_is_list /\ ~is_list_item(para)
                \/ is_list_item(para) /\ ~next_is_list
        ELSE IF Len(current_chunk) >= min_chunk_size
        THEN /\ has_next
             /\ \/ is_section_header(paragraphs[i + 1])
                \/ is_topic_change(para, paragraphs[i + 1]) /\ ~is_list_item(para)
        ELSE FALSE

\* chunk_text: one iteration of the for loop over st = [chunks, current_chunk,
\* current_title]
chunk_paragraph(paragraphs, i, st, category) ==
    LET para == paragraphs[i]
    IN  IF is_section_header(para)
        THEN LET flush == str_strip(st.current_chunk) # <<>>
                          /\ 2 * Len(st.current_chunk) >= min_chunk_size
             IN  [chunks |-> IF flush
                             THEN Append(st.chunks, new_chunk(st.current_title, st.current_chunk, category))
                             ELSE st.chunks,
                  current_chunk |-> IF flush THEN <<>> ELSE st.current_chunk,
                  current_title |-> str_strip(str_prefix(para, 100))]
        ELSE LET added == (IF st.current_chunk # <<>> THEN st.current_chunk \o <<"\n", "\n">> ELSE <<>>)
                          \o para
             IN  IF should_split(paragraphs, i, added)
                 THEN [chunks |-> Append(st.chunks, new_chunk(st.current_title, added, category)),
                       current_chunk |-> <<>>,
                       current_title |-> st.current_title]
                 ELSE [st EXCEPT !.current_chunk = added]

\* (mutation: what is left after the loop becomes a chunk, also when it is
\* empty)
final_chunk_always(st, category) ==
    Append(st.chunks, new_chunk(st.current_title, st.current_chunk, category))
\* chunk_text: the final chunk, added after the loop
final_chunk(st, category) ==
    IF str_strip(st.current_chunk) # <<>> /\ 10 * Len(st.current_chunk) >= 4 * min_chunk_size
    THEN Append(st.chunks, new_chunk(st.current_title, st.current_chunk, category))
    ELSE st.chunks

\* sum(len(c['content']) for c in chunks)
RECURSIVE total_content_length(_)
total_content_length(chunks) ==
    IF chunks = <<>> THEN 0
    ELSE Len(chunks[1].content) + total_content_length(Tail(chunks))

\* the document size above which one or two chunks are split again
force_split_total == 2000
needs_force_split(chunks) ==
    Len(chunks) <= 2 /\ total_content_length(chunks) > force_split_total

\* f"{title} (Part {part_num})" if part_num > 1 else title
part_title(title, part_num) ==
    IF part_num > 1
    THEN title \o <<" ", "(", "P", "a", "r", "t", " ">> \o str_of_nat(part_num) \o <<")">>
    ELSE title

\* _force_split_large_chunks: the inner loop over the paragraphs of one
\* chunk; st = [new_chunks, sub_chunk, part_num]
RECURSIVE force_split_paragraphs(_, _, _, _, _)
force_split_paragraphs(paragraphs, i, title, category, st) ==
    IF i > Len(paragraphs)
    THEN IF str_strip(st.sub_chunk) # <<>>
         THEN Append(st.new_chunks, new_chunk(part_title(title, st.part_num), st.sub_chunk, category))
         ELSE st.new_chunks
    ELSE LET sub_chunk == (IF st.sub_chunk # <<>> THEN st.sub_chunk \o <<"\n", "\n">> ELSE <<>>)
                          \o paragraphs[i]
         IN  IF Len(sub_chunk) >= target_chunk_size
             THEN force_split_paragraphs(paragraphs, i + 1, title, category,
                      [new_chunks |-> Append(st.new_chunks,
                                             new_chunk(part_title(title, st.part_num), sub_chunk, category)),
                       sub_chunk |-> <<>>,
                       part_num |-> st.part_num + 1])
             ELSE force_split_paragraphs(paragraphs, i + 1, title, category,
                      [st EXCEPT !.sub_chunk = sub_chunk])

\* _force_split_large_chunks
RECURSIVE force_split_from(_, _, _, _)
force_split_from(chunks, k, category, new_chunks) ==
    IF k > Len(chunks) THEN new_chunks
    ELSE IF Len(chunks[k].content) <= max_chunk_size
    THEN force_split_from(chunks, k + 1, category, Append(new_chunks, chunks[k]))
    ELSE force_split_from(chunks, k + 1, category,
             force_split_paragraphs(split_paragraphs(chunks[k].content), 1, chunks[k].title, category,
                                    [new_chunks |-> new_chunks, sub_chunk |-> <<>>, part_num |-> 1]))
force_split_large_chunks(chunks, category) == force_split_from(chunks, 1, category, <<>>)

\* chunk_text as one function (the actions below take it a step at a time)
RECURSIVE chunk_loop(_, _, _, _)
chunk_loop(paragraphs, i, st, category) ==
    IF i > Len(paragraphs) THEN st
    ELSE chunk_loop(paragraphs, i + 1, chunk_paragraph(paragraphs, i, st, category), category)
first_title == <<"S","a","f","e","t","y"," ","I","n","f","o","r","m","a","t","i","o","n">>
chunk_text(text, category) ==
    LET st == chunk_loop(split_paragraphs(text), 1,
                         [chunks |-> <<>>, current_chunk |-> <<>>, current_title |-> first_title],
                         category)
        chunks == final_chunk(st, category)
    IN  IF needs_force_split(chunks) THEN force_split_large_chunks(chunks, category) ELSE chunks

(***************************************************************************)
(* Documents the cleaner and the chunker are run on                        *)
(***************************************************************************)
\* "TABLE OF CONTENTS"
para_contents == <<"T","A","B","L","E"," ","O","F"," ","C","O","N","T","E","N","T","S">>
\* "Chapter 1"
para_chapter == <<"C","h","a","p","t","e","r"," ","1">>
\* "FALL PROTECTION"
para_header == <<"F","A","L","L"," ","P","R","O","T","E","C","T","I","O","N">>
\* "Always wear a harness when working above six feet."
para_harness == <<"A","l","w","a","y","s"," ","w","e","a","r"," ","a"," ","h","a","r","n","e",
    "s","s"," ","w","h","e","n"," ","w","o","r","k","i","n","g"," ","a","b","o","v","e"," ","s",
    "i","x"," ","f","e","e","t",".">>
\* "Wear harness\npage 12"
para_footer == <<"W","e","a","r"," ","h","a","r","n","e","s","s","\n","p","a","g","e"," ","1",
    "2">>
\* "Copyright Notice"
para_copyright == <<"C","o","p","y","r","i","g","h","t"," ","N","o","t","i","c","e">>
\* "- Inspect the lanyard before each use and replace it if it is worn out or damaged."
para_list == <<"-"," ","I","n","s","p","e","c","t"," ","t","h","e"," ","l","a","n","y","a","r",
    "d"," ","b","e","f","o","r","e"," ","e","a","c","h"," ","u","s","e"," ","a","n","d"," ","r",
    "e","p","l","a","c","e"," ","i","t"," ","i","f"," ","i","t"," ","i","s"," ","w","o","r","n",
    " ","o","u","t"," ","o","r"," ","d","a","m","a","g","e","d",".">>
\* "However, a guardrail is required on every open side of the platform."
para_however == <<"H","o","w","e","v","e","r",","," ","a"," ","g","u","a","r","d","r","a","i",
    "l"," ","i","s"," ","r","e","q","u","i","r","e","d"," ","o","n"," ","e","v","e","r","y"," ",
    "o","p","e","n"," ","s","i","d","e"," ","o","f"," ","t","h","e"," ","p","l","a","t","f","o",
    "r","m",".">>

\* a paragraph of n sentences
sentences(n) == str_join(<<" ">>, [k \in 1..n |-> para_harness])
para_254 == sentences(5)
para_458 == sentences(9)
para_917 == sentences(18)
para_2141 == sentences(42)
para_764 == sentences(15)
\* "- Inspect the lanyard before each use."
para_list_short == <<"-"," ","I","n","s","p","e","c","t"," ","t","h","e"," ","l","a","n","y","a","r",
    "d"," ","b","e","f","o","r","e"," ","e","a","c","h"," ","u","s","e",".">>

\* the largest number of paragraphs of a document
MaxParagraphs == 3
Documents(Paragraphs) ==
    {str_join(<<"\n", "\n">>, ps) : ps \in UNION {[1..n -> Paragraphs] : n \in 1..MaxParagraphs}}

CleanParagraphs == {para_contents, para_chapter, para_header, para_harness, para_footer,
                    para_copyright, para_list}
CleanTexts == Documents(CleanParagraphs)
ChunkParagraphs == {para_header, para_harness, para_254, para_458, para_764, para_917,
                    para_2141, para_list, para_list_short, para_however}
ChunkTexts == Documents(ChunkParagraphs)
\* "fall", and a partition argument of one space
ChunkCategories == {<<"f","a","l","l">>, <<" ">>}

(***************************************************************************)
(* clean_text, a step at a time                                            *)
(***************************************************************************)
\* the largest number of successive calls, each on the value the one before returned
MaxCleanCalls == 2

CleanIdle ==
    /\ clean_pc = "idle"
    /\ clean_arg = <<>>
    /\ clean_work = <<>>
    /\ clean_calls = <<>>

CleanInit ==
    /\ clean_pc = "sections"
    /\ clean_arg \in CleanTexts
    /\ clean_work = clean_arg
    /\ clean_calls = <<>>

\* one of the steps 1 to 4: text = self._step(text)
CleanStep(result, next_pc) ==
    /\ clean_work' = result
    /\ clean_pc' = next_pc
    /\ UNCHANGED <<clean_arg, clean_calls, storeVars, chunkVars, pipeVars, ioVars, uploadVars>>

RemoveUnwantedSections ==
    /\ clean_pc = "sections"
    /\ CleanStep(remove_unwanted_sections(clean_work), "filter")
FilterParagraphs ==
    /\ clean_pc = "filter"
    /\ CleanStep(filter_paragraphs(clean_work), "markers")
RemovePageMarkers ==
    /\ clean_pc = "markers"
    /\ CleanStep(remove_page_markers(clean_work), "repeats")
RemoveRepeatedContent ==
    /\ clean_pc = "repeats"
    /\ CleanStep(remove_repeated_content(clean_work), "whitespace")

CleanWhitespaceAndReturn ==
    /\ clean_pc = "whitespace"
    /\ clean_work' = clean_whitespace_step(clean_work)
    /\ clean_calls' = Append(clean_calls, [text |-> clean_arg, returned |-> clean_work'])
    /\ clean_pc' = "returned"
    /\ UNCHANGED <<clean_arg, storeVars, chunkVars, pipeVars, ioVars, uploadVars>>

\* clean_text is called again on what it returned
CleanAgain ==
    /\ clean_pc = "returned"
    /\ Len(clean_calls) < MaxCleanCalls
    /\ clean_arg' = clean_calls[Len(clean_calls)].returned
    /\ clean_work' = clean_arg'
    /\ clean_pc' = "sections"
    /\ UNCHANGED <<clean_calls, storeVars, chunkVars, pipeVars, ioVars, uploadVars>>

(***************************************************************************)
(* chunk_text, a step at a time                                            *)
(***************************************************************************)
ChunkIdle ==
    /\ chunk_pc = "idle"
    /\ chunk_args = [text |-> <<>>, category |-> <<>>]
    /\ chunk_paragraphs = <<>>
    /\ chunk_i = 1
    /\ chunk_list = <<>>
    /\ chunk_current = <<>>
    /\ chunk_title = <<>>
    /\ chunk_force_split_ran = FALSE

ChunkInit ==
    /\ chunk_pc = "start"
    /\ chunk_args \in [text : ChunkTexts, category : ChunkCategories]
    /\ chunk_paragraphs = <<>>
    /\ chunk_i = 1
    /\ chunk_list = <<>>
    /\ chunk_current = <<>>
    /\ chunk_title = <<>>
    /\ chunk_force_split_ran = FALSE

\* lines 349-354
ChunkStart ==
    /\ chunk_pc = "start"
    /\ chunk_paragraphs' = split_paragraphs(chunk_args.text)
    /\ chunk_list' = <<>>
    /\ chunk_current' = <<>>
    /\ chunk_title' = first_title
    /\ chunk_i' = 1
    /\ chunk_pc' = "loop"
    /\ UNCHANGED <<chunk_args, chunk_force_split_ran, storeVars, cleanVars, pipeVars, ioVars, uploadVars>>

\* one iteration of the loop, lines 356-423
ChunkParagraph ==
    /\ chunk_pc = "loop"
    /\ chunk_i <= Len(chunk_paragraphs)
    /\ LET st == chunk_paragraph(chunk_paragraphs, chunk_i,
                                 [chunks |-> chunk_list, current_chunk |-> chunk_current,
                                  current_title |-> chunk_title],
                                 chunk_args.category)
       IN  /\ chunk_list' = st.chunks
           /\ chunk_current' = st.current_chunk
           /\ chunk_title' = st.current_title
    /\ chunk_i' = chunk_i + 1
    /\ UNCHANGED <<chunk_pc, chunk_args, chunk_paragraphs, chunk_force_split_ran,
                   storeVars, cleanVars, pipeVars, ioVars, uploadVars>>

\* the final chunk, lines 425-432
ChunkFinal ==
    /\ chunk_pc = "loop"
    /\ chunk_i > Len(chunk_paragraphs)
    /\ chunk_list' = final_chunk([chunks |-> chunk_list, current_chunk |-> chunk_current,
                              current_title |-> chunk_title], chunk_args.category)
    /\ chunk_pc' = "post"
    /\ UNCHANGED <<chunk_args, chunk_paragraphs, chunk_i, chunk_current, chunk_title, chunk_force_split_ran,
                   storeVars, cleanVars, pipeVars, ioVars, uploadVars>>

\* lines 436-442, when the document came out as one or two chunks of more
\* than force_split_total characters
ChunkForceSplitAndReturn ==
    /\ chunk_pc = "post"
    /\ needs_force_split(chunk_list)
    /\ chunk_list' = force_split_large_chunks(chunk_list, chunk_args.category)
    /\ chunk_force_split_ran' = TRUE
    /\ chunk_pc' = "returned"
    /\ UNCHANGED <<chunk_args, chunk_paragraphs, chunk_i, chunk_current, chunk_title, storeVars, cleanVars, pipeVars, ioVars, uploadVars>>

\* lines 436-442 otherwise
ChunkReturn ==
    /\ chunk_pc = "post"
    /\ ~needs_force_split(chunk_list)
    /\ chunk_pc' = "returned"
    /\ UNCHANGED <<chunk_args, chunk_paragraphs, chunk_i, chunk_list, chunk_current, chunk_title,
                   chunk_force_split_ran, storeVars, cleanVars, pipeVars, ioVars, uploadVars>>

(***************************************************************************)
(* JSON text: json.dump(data, f, indent=2, ensure_ascii=False) and         *)
(* json.load(f), on the text character by character                        *)
(***************************************************************************)
\* the keys of an entry, as field names of the model and as text, in the
\* order the model writes them (a dict keeps its insertion order; no reader
\* of the model depends on the order)
FieldOrder == <<"title", "content", "category", "source", "keywords", "search_text">>
FieldChars == [title |-> <<"t","i","t","l","e">>,
               content |-> <<"c","o","n","t","e","n","t">>,
               category |-> <<"c","a","t","e","g","o","r","y">>,
               source |-> <<"s","o","u","r","c","e">>,
               keywords |-> <<"k","e","y","w","o","r","d","s">>,
               search_text |-> <<"s","e","a","r","c","h","_","t","e","x","t">>]
\* the fields whose value is a list of str; the others hold a str
ListFields == {"keywords"}

\* json.encoder.ESCAPE_DCT, for the characters the texts of the model hold
JsonEscapes == [c \in {"\"", "\\", "\n", "\r", "\t"} |->
                   CASE c = "\"" -> <<"\\", "\"">>
                     [] c = "\\" -> <<"\\", "\\">>
                     [] c = "\n" -> <<"\\", "n">>
                     [] c = "\r" -> <<"\\", "r">>
                     [] c = "\t" -> <<"\\", "t">>]
\* (mutation: a quotation mark inside a string is written as it is)
json_escape_char_raw_quote(c) ==
    IF c \in DOMAIN JsonEscapes /\ c # "\"" THEN JsonEscapes[c] ELSE <<c>>
\* one character of a str inside a JSON string (ensure_ascii=False: no \uXXXX
\* for the characters that are not ASCII)
json_escape_char(c) == IF c \in DOMAIN JsonEscapes THEN JsonEscapes[c] ELSE <<c>>

json_escape_from(s, i) == Flatten([k \in 1..Len(s) |-> json_escape_char(s[k])], i, Len(s))
\* json.dumps of a str
json_dumps_str(s) == <<"\"">> \o json_escape_from(s, 1) \o <<"\"">>

\* the newline and the indentation json.dump writes at nesting depth level
json_newline_indent(level) == <<"\n">> \o [k \in 1..(2 * level) |-> " "]

\* the items of a list or the members of a dict, already dumped, between the
\* brackets open and close
json_dumps_items_from(items, k, level) ==
    Flatten([n \in 1..Len(items) |->
                (IF n > 1 THEN <<",">> ELSE <<>>) \o json_newline_indent(level + 1) \o items[n]],
            k, Len(items))
json_dumps_container(open, items, close, level) ==
    IF items = <<>> THEN <<open, close>>
    ELSE <<open>> \o json_dumps_items_from(items, 1, level) \o json_newline_indent(level)
         \o <<close>>

\* json.dumps of a list of str
json_dumps_str_list(strs, level) ==
    json_dumps_container("[", [k \in DOMAIN strs |-> json_dumps_str(strs[k])], "]", level)

\* json.dumps of an entry (a dict)
json_dumps_entry(entry, level) ==
    LET keys == SelectSeq(FieldOrder, LAMBDA f : f \in DOMAIN entry)
        member(f) == json_dumps_str(FieldChars[f]) \o <<":", " ">>
                     \o (IF f \in ListFields THEN json_dumps_str_list(entry[f], level + 1)
                         ELSE json_dumps_str(entry[f]))
    IN  json_dumps_container("{", [k \in DOMAIN keys |-> member(keys[k])], "}", level)

\* json.dumps(entries, indent=2, ensure_ascii=False): the text of a partition file
json_dumps(entries) ==
    json_dumps_container("[", [k \in DOMAIN entries |-> json_dumps_entry(entries[k], 1)], "]", 0)

\* what a parse step gives: a value and the position after it, or a failure
\* (json.JSONDecodeError)
JsonFail == [ok |-> FALSE, value |-> <<>>, next |-> 0]
JsonOk(value, next) == [ok |-> TRUE, value |-> value, next |-> next]
JsonWhitespace == {" ", "\t", "\n", "\r"}
\* json.decoder.BACKSLASH, without \b, \f and \uXXXX
JsonUnescapes == [c \in {"\"", "\\", "/", "n", "r", "t"} |->
                     CASE c = "n" -> "\n" [] c = "r" -> "\r" [] c = "t" -> "\t" [] OTHER -> c]

\* s[j] is the second character of an escape of the string whose first
\* character is s[i]: an odd number of backslashes of the string runs up to it
json_escaped_after(s, i, j, b) == (j - 1 - (IF b < i - 1 THEN i - 1 ELSE b)) % 2 = 1
json_escaped(s, i, j) ==
    /\ j > i
    /\ s[j - 1] = "\\"
    /\ json_escaped_after(s, i, j, SkipSetBack(s, j - 1, {"\\"}))

\* s[j] stops the scan of the string whose first character is s[i]: the
\* closing quotation mark, a raw control character (strict=True) or a
\* backslash that starts no escape
json_string_stop(s, i, j) ==
    /\ \/ s[j] \in {"\"", "\n", "\r", "\t"}
       \/ s[j] = "\\" /\ (j + 1 > Len(s) \/ s[j + 1] \notin DOMAIN JsonUnescapes)
    /\ ~json_escaped(s, i, j)

\* the first position of lo..hi that stops the scan (0 if none), looked for
\* in the lower half of the range before the upper half
RECURSIVE json_string_end(_, _, _, _)
json_string_end_above(s, i, lower, lo, hi) ==
    IF lower # 0 THEN lower ELSE json_string_end(s, i, lo, hi)
json_string_end(s, i, lo, hi) ==
    IF lo > hi THEN 0
    ELSE IF lo = hi THEN (IF json_string_stop(s, i, lo) THEN lo ELSE 0)
    ELSE json_string_end_above(s, i, json_string_end(s, i, lo, (lo + hi) \div 2),
                               (lo + hi) \div 2 + 1, hi)

\* the character s[j] of a string denotes, with the one before it when it
\* ends an escape
json_string_char(s, i, j) ==
    IF json_escaped(s, i, j) THEN <<JsonUnescapes[s[j]]>>
    ELSE IF s[j] = "\\" THEN <<>>
    ELSE <<s[j]>>
json_string_until(s, i, end) ==
    IF end = 0 THEN JsonFail
    ELSE IF s[end] # "\"" THEN JsonFail
    ELSE IF \A j \in i..(end - 1) : s[j] # "\\" THEN JsonOk(SubSeq(s, i, end - 1), end + 1)
    ELSE JsonOk(Flatten([k \in 1..(end - i) |-> json_string_char(s, i, i + k - 1)], 1, end - i),
                end + 1)

\* py_scanstring: s[i] is the first character after the opening quotation
\* mark; only a closing quotation mark that stops the scan ends a string
json_scan_string(s, i) == json_string_until(s, i, json_string_end(s, i, i, Len(s)))

\* the object an entry text denotes: a later member replaces an earlier one
\* of the same key
json_object(members) ==
    LET fields == {f \in DOMAIN FieldChars : \E k \in DOMAIN members : members[k].key = FieldChars[f]}
    IN  [f \in fields |->
            members[SetMax({k \in DOMAIN members : members[k].key = FieldChars[f]})].value]

\* JSONDecoder.scan_once at position i (strings, arrays and objects: the
\* texts of the model hold no numbers and no literals), with the items of an
\* array and the members of an object
RECURSIVE json_scan_once(_, _), json_scan_array(_, _, _), json_scan_object(_, _, _)
json_scan_once(s, i) ==
    IF i > Len(s) THEN JsonFail
    ELSE IF s[i] = "\"" THEN json_scan_string(s, i + 1)
    ELSE IF s[i] = "["
    THEN LET j == SkipSet(s, i + 1, JsonWhitespace)
         IN  IF j <= Len(s) /\ s[j] = "]" THEN JsonOk(<<>>, j + 1)
             ELSE json_scan_array(s, j, <<>>)
    ELSE IF s[i] = "{"
    THEN LET j == SkipSet(s, i + 1, JsonWhitespace)
         IN  IF j <= Len(s) /\ s[j] = "}" THEN JsonOk(json_object(<<>>), j + 1)
             ELSE json_scan_object(s, j, <<>>)
    ELSE JsonFail
\* the item parsed, after the items acc: the array ends or goes on behind it
json_array_item(s, item, acc) ==
    LET j == SkipSet(s, item.next, JsonWhitespace)
    IN  CASE ~item.ok \/ j > Len(s) -> JsonFail
          [] s[j] = "]" -> JsonOk(Append(acc, item.value), j + 1)
          [] s[j] = "," -> json_scan_array(s, SkipSet(s, j + 1, JsonWhitespace),
                                           Append(acc, item.value))
          [] OTHER -> JsonFail
\* s[i] starts an item
json_scan_array(s, i, acc) == json_array_item(s, json_scan_once(s, i), acc)

\* the value of the member key parsed, after the members acc: the object ends
\* or goes on behind it
json_object_member(s, key, value, acc) ==
    LET j == SkipSet(s, value.next, JsonWhitespace)
    IN  CASE ~value.ok \/ j > Len(s) -> JsonFail
          [] s[j] = "}" -> JsonOk(json_object(Append(acc, [key |-> key, value |-> value.value])),
                                  j + 1)
          [] s[j] = "," -> json_scan_object(s, SkipSet(s, j + 1, JsonWhitespace),
                                            Append(acc, [key |-> key, value |-> value.value]))
          [] OTHER -> JsonFail
\* the key of a member parsed: a colon and the value follow
json_object_key(s, key, acc) ==
    LET colon == SkipSet(s, key.next, JsonWhitespace)
    IN  IF ~key.ok \/ colon > Len(s) \/ s[colon] # ":" THEN JsonFail
        ELSE json_object_member(s, key.value,
                                json_scan_once(s, SkipSet(s, colon + 1, JsonWhitespace)), acc)
\* s[i] starts a member: "key": value
json_scan_object(s, i, acc) ==
    IF i > Len(s) \/ s[i] # "\"" THEN JsonFail
    ELSE json_object_key(s, json_scan_string(s, i + 1), acc)

\* json.loads(text): the value, or a failure when the text is not one JSON
\* value with nothing but whitespace around it
json_loads_value(text, parsed) ==
    IF parsed.ok /\ SkipSet(text, parsed.next, JsonWhitespace) > Len(text)
    THEN parsed ELSE JsonFail
json_loads(text) == json_loads_value(text, json_scan_once(text, SkipSet(text, 1, JsonWhitespace)))

(***************************************************************************)
(* Knowledge store: orchestrator/knowledge_base_manager.py                 *)
(***************************************************************************)
\* Sample field values.  "Wear a hard hat on site."
content_site == <<"W","e","a","r"," ","a"," ","h","a","r","d"," ","h","a","t"," ","o","n"," ",
    "s","i","t","e",".">>
\* "Wear a hard hat on the site."   (6 of 7 tokens shared with content_site)
content_the_site == <<"W","e","a","r"," ","a"," ","h","a","r","d"," ","h","a","t"," ","o","n",
    " ","t","h","e"," ","s","i","t","e",".">>
\* "WEAR  a hard hat on site.\n"    (content_site up to case and whitespace)
content_site_spaced == <<"W","E","A","R"," "," ","a"," ","h","a","r","d"," ","h","a","t"," ",
    "o","n"," ","s","i","t","e",".","\n">>
\* "Wear a hard"                    (3 of the 6 tokens of content_site: exactly 0.50)
content_half == <<"W","e","a","r"," ","a"," ","h","a","r","d">>
\* "Check the ladder"
content_ladder == <<"C","h","e","c","k"," ","t","h","e"," ","l","a","d","d","e","r">>
\* "Hard hats"
title_hats == <<"H","a","r","d"," ","h","a","t","s">>
\* " "
title_blank == <<" ">>
\* "ppe"
category_ppe == <<"p","p","e">>

entry_site == [title |-> title_hats, content |-> content_site, category |-> category_ppe]
entry_the_site == [title |-> title_hats, content |-> content_the_site, category |-> category_ppe]
entry_site_spaced == [title |-> title_hats, content |-> content_site_spaced, category |-> category_ppe]
entry_half == [title |-> title_hats, content |-> content_half, category |-> category_ppe]
\* invalid candidates: blank title, no category field, empty content
entry_blank_title == [title |-> title_blank, content |-> content_ladder, category |-> category_ppe]
entry_no_category == [title |-> title_hats, content |-> content_half]
entry_empty_content == [title |-> title_hats, content |-> <<>>, category |-> category_ppe]

Entries == {entry_site, entry_the_site, entry_site_spaced, entry_half,
            entry_blank_title, entry_no_category, entry_empty_content}
\* the candidates the calls of the model draw from
Candidates == {entry_site, entry_half, entry_blank_title, entry_empty_content}
Contents == {content_site, content_the_site, content_site_spaced, content_half,
             content_ladder, <<>>}

\* the partitions ("category" in the source): <category>_base.json
Partitions == {"fall", "electrical"}
\* the partitions the calls of Spec are made on
CalledPartitions == {"fall"}
\* the partition file does not exist
NoFile == [exists |-> FALSE, entries |-> <<>>]
\* the partition file holds the JSON list `entries`
File(entries) == [exists |-> TRUE, entries |-> entries]
\* Python values a call returns: None, a bool, a tuple
None == [type |-> "NoneType"]
Bool(b) == [type |-> "bool", value |-> b]
Tuple(items) == [type |-> "tuple", items |-> items]

\* most records the partition files hold together, most candidates of one
\* append call, most hashes the metadata file lists (all partitions together)
MaxStored == 2
MaxBatch == 2
MaxHashes == 2
\* similarity_threshold default and the literal of the batch check, in percent
DefaultThreshold == 50
BatchThreshold == 50
\* thresholds a caller passes to is_content_duplicate, in percent
Thresholds == {DefaultThreshold, 100}

SeqsUpTo(S, n) == UNION {[1..k -> S] : k \in 0..n}

\* entry.get(field, "")
entry_get(entry, field) == IF field \in DOMAIN entry THEN entry[field] ELSE <<>>

\* _compute_content_hash: SHA-256 of the normalized text.  The digest is
\* modelled by the normalized text itself (equal digests <=> equal
\* normalized texts, i.e. no collisions).
compute_content_hash(content) == str_join(<<" ">>, str_split(str_strip(str_lower(content))))

\* _compute_similarity: the Jaccard ratio as a fraction num/den (0/1 for 0.0)
compute_similarity(text1, text2) ==
    LET words1 == SeqToSet(str_split(str_strip(str_lower(text1))))
        words2 == SeqToSet(str_split(str_strip(str_lower(text2))))
        intersection == Cardinality(words1 \cap words2)
        union == Cardinality(words1 \cup words2)
    IN  IF words1 = {} \/ words2 = {} THEN [num |-> 0, den |-> 1]
        ELSE IF union > 0 THEN [num |-> intersection, den |-> union]
        ELSE [num |-> 0, den |-> 1]

\* the two functions tabulated over the sample contents (evaluated once)
content_hash_table == [c \in Contents |-> compute_content_hash(c)]
similarity_table == [c \in Contents, d \in Contents |-> compute_similarity(c, d)]
content_hash(content) == content_hash_table[content]
similarity(text1, text2) == similarity_table[text1, text2]

\* (mutation: a strict comparison)
similarity_gt(sim, threshold) == sim.num * 100 > threshold * sim.den
\* similarity >= threshold, threshold in percent
similarity_ge(sim, threshold) == sim.num * 100 >= threshold * sim.den

\* the for loop of is_content_duplicate over the loaded entries (early return)
RECURSIVE similar_entry_exists(_, _, _, _)
similar_entry_exists(content, kb_entries, i, similarity_threshold) ==
    IF i > Len(kb_entries) THEN FALSE
    ELSE IF similarity_ge(similarity(content, entry_get(kb_entries[i], "content")),
                          similarity_threshold)
         THEN TRUE
         ELSE similar_entry_exists(content, kb_entries, i + 1, similarity_threshold)

\* (mutation: the exact match alone, no similarity with the stored records)
is_content_duplicate_by_hash(content, category_hashes, kb_file, similarity_threshold) ==
    content_hash(content) \in SeqToSet(category_hashes)
\* is_content_duplicate, on the metadata list of the partition and its file
is_content_duplicate(content, category_hashes, kb_file, similarity_threshold) ==
    IF content_hash(content) \in SeqToSet(category_hashes) THEN TRUE
    ELSE IF ~kb_file.exists THEN FALSE       \* FileNotFoundError is swallowed
    ELSE similar_entry_exists(content, kb_file.entries, 1, similarity_threshold)

\* (mutation: the hash is never recorded)
record_content_hash_dropped(content, category_hashes) == category_hashes
\* (mutation: the list is rewritten with the new hash alone)
record_content_hash_latest(content, category_hashes) == <<content_hash(content)>>
\* _record_content_hash: the hash is appended unless already listed
record_content_hash(content, category_hashes) ==
    IF content_hash(content) \in SeqToSet(category_hashes) THEN category_hashes
    ELSE Append(category_hashes, content_hash(content))

\* (mutation: no batch-internal check)
is_duplicate_in_batch_off(content, entries_to_add) == FALSE
\* the batch-internal check of append_to_knowledge_base (lines 239-246)
is_duplicate_in_batch(content, entries_to_add) ==
    \E k \in DOMAIN entries_to_add :
        similarity_ge(similarity(content, entry_get(entries_to_add[k], "content")),
                      BatchThreshold)

\* (mutation: a batch-internal duplicate is dropped without being counted)
RECURSIVE append_loop_uncounted(_, _, _, _, _)
append_loop_uncounted(new_entries, i, skip_duplicates, kb_file, st) ==
    IF i > Len(new_entries) THEN st
    ELSE LET entry == new_entries[i]
             content == entry_get(entry, "content")
         IN  IF skip_duplicates
                  /\ is_content_duplicate(content, st.hashes, kb_file, DefaultThreshold)
             THEN append_loop_uncounted(new_entries, i + 1, skip_duplicates, kb_file,
                      [st EXCEPT !.skipped_duplicates = @ + 1])
             ELSE IF skip_duplicates /\ is_duplicate_in_batch(content, st.entries_to_add)
             THEN append_loop_uncounted(new_entries, i + 1, skip_duplicates, kb_file, st)
             ELSE append_loop_uncounted(new_entries, i + 1, skip_duplicates, kb_file,
                      [st EXCEPT !.entries_to_add = Append(@, entry),
                                 !.hashes = record_content_hash(content, @)])

\* the for loop of append_to_knowledge_base; st = the loop's local state
\* and the metadata list, which _record_content_hash rewrites as it goes
RECURSIVE append_loop(_, _, _, _, _)
append_loop(new_entries, i, skip_duplicates, kb_file, st) ==
    IF i > Len(new_entries) THEN st
    ELSE LET entry == new_entries[i]
             content == entry_get(entry, "content")
         IN  IF skip_duplicates
                  /\ is_content_duplicate(content, st.hashes, kb_file, DefaultThreshold)
             THEN append_loop(new_entries, i + 1, skip_duplicates, kb_file,
                      [st EXCEPT !.skipped_duplicates = @ + 1])
             ELSE IF skip_duplicates /\ is_duplicate_in_batch(content, st.entries_to_add)
             THEN append_loop(new_entries, i + 1, skip_duplicates, kb_file,
                      [st EXCEPT !.skipped_duplicates = @ + 1])
             ELSE append_loop(new_entries, i + 1, skip_duplicates, kb_file,
                      [st EXCEPT !.entries_to_add = Append(@, entry),
                                 !.hashes = record_content_hash(content, @)])

\* validate_entry
validate_entry(entry) ==
    \A field \in {"title", "content", "category"} :
        /\ field \in DOMAIN entry
        /\ entry[field] # <<>>
        /\ str_strip(entry[field]) # <<>>

RECURSIVE SumOver(_, _)
SumOver(f, S) == IF S = {} THEN 0
                 ELSE LET x == CHOOSE y \in S : TRUE IN f[x] + SumOver(f, S \ {x})
StoredTotal == SumOver([p \in Partitions |-> Len(kb_files[p].entries)], Partitions)
HashesTotal == SumOver([p \in Partitions |-> Len(content_hashes[p])], Partitions)

\* no call yet / no repeated call
NoCall == [op |-> "none"]
\* "imported_documents": {} as _ensure_metadata_exists writes it
NoDocuments == [filename \in {} |-> None]

\* the call before the last one, kept when the last call repeats it (same
\* operation, partition and arguments); NoCall otherwise
Repeats(call) ==
    IF last.op = call.op /\ last.category = call.category /\ last.args = call.args
    THEN last ELSE NoCall

StoreInit ==
    /\ kb_files = [p \in Partitions |-> NoFile]
    /\ content_hashes = [p \in Partitions |-> <<>>]
    /\ imported_documents = NoDocuments
    /\ last = NoCall
    /\ repeated = NoCall

\* what append_to_knowledge_base prints (lines 261-263)
append_printed(skipped_duplicates, entries_to_add) ==
    (IF skipped_duplicates > 0 THEN <<[msg |-> "Skipped", n |-> skipped_duplicates]>> ELSE <<>>)
    \o <<[msg |-> "Appended", n |-> Len(entries_to_add)]>>

\* (mutation: the hashes of all partitions together)
category_hashes_all(hashes, category) == hashes["fall"] \o hashes["electrical"]
\* metadata.get("content_hashes", {}).get(category, [])
category_hashes(hashes, category) == hashes[category]

\* (mutation: the accepted entries are put in front of the stored ones)
list_extend_in_front(existing_entries, entries_to_add) == entries_to_add \o existing_entries
\* existing_entries.extend(entries_to_add)
list_extend(existing_entries, entries_to_add) == existing_entries \o entries_to_add

\* append_to_knowledge_base(category, new_entries, skip_duplicates)
append_to_knowledge_base(category, new_entries, skip_duplicates) ==
    LET existing_entries == IF kb_files[category].exists THEN kb_files[category].entries ELSE <<>>
        done == append_loop(new_entries, 1, skip_duplicates, kb_files[category],
                    [entries_to_add |-> <<>>, skipped_duplicates |-> 0,
                     hashes |-> category_hashes(content_hashes, category)])
        call == [op |-> "append", category |-> category,
                 args |-> <<new_entries, skip_duplicates>>,
                 new_entries |-> new_entries, skip_duplicates |-> skip_duplicates,
                 before |-> kb_files[category], hashes_before |-> content_hashes[category],
                 entries_to_add |-> done.entries_to_add,
                 skipped_duplicates |-> done.skipped_duplicates,
                 printed |-> append_printed(done.skipped_duplicates, done.entries_to_add),
                 returned |-> None]
    IN  /\ StoredTotal + Len(done.entries_to_add) <= MaxStored
        /\ HashesTotal - Len(content_hashes[category]) + Len(done.hashes) <= MaxHashes
        /\ kb_files' = [kb_files EXCEPT ![category] =
                            File(list_extend(existing_entries, done.entries_to_add))]
        /\ content_hashes' = [content_hashes EXCEPT ![category] = done.hashes]
        /\ UNCHANGED imported_documents
        /\ last' = call
        /\ repeated' = Repeats(call)

\* save_knowledge_base(category, entries): full overwrite of the partition file
save_knowledge_base(category, entries) ==
    LET call == [op |-> "save", category |-> category, args |-> <<entries>>,
                 returned |-> None]
    IN  /\ kb_files' = [kb_files EXCEPT ![category] = File(entries)]
        /\ UNCHANGED <<content_hashes, imported_documents>>
        /\ last' = call
        /\ repeated' = Repeats(call)

\* a caller asks is_content_duplicate(content, category, similarity_threshold)
duplicate_query(content, category, similarity_threshold) ==
    LET call == [op |-> "is_content_duplicate", category |-> category,
                 args |-> <<content, similarity_threshold>>,
                 content |-> content, similarity_threshold |-> similarity_threshold,
                 returned |-> Bool(is_content_duplicate(content, content_hashes[category],
                                            kb_files[category], similarity_threshold))]
    IN  /\ UNCHANGED <<kb_files, content_hashes, imported_documents>>
        /\ last' = call
        /\ repeated' = Repeats(call)

AppendCall ==
    /\ \E category \in CalledPartitions, new_entries \in SeqsUpTo(Candidates, MaxBatch),
          skip_duplicates \in BOOLEAN :
             append_to_knowledge_base(category, new_entries, skip_duplicates)
    /\ UNCHANGED <<cleanVars, chunkVars, pipeVars, ioVars, uploadVars>>
SaveCall ==
    /\ \E category \in CalledPartitions, entries \in SeqsUpTo(Candidates, MaxStored) :
             /\ StoredTotal - Len(kb_files[category].entries) + Len(entries) <= MaxStored
             /\ save_knowledge_base(category, entries)
    /\ UNCHANGED <<cleanVars, chunkVars, pipeVars, ioVars, uploadVars>>
DuplicateQueryCall ==
    /\ \E content \in Contents, category \in CalledPartitions, similarity_threshold \in Thresholds :
             duplicate_query(content, category, similarity_threshold)
    /\ UNCHANGED <<cleanVars, chunkVars, pipeVars, ioVars, uploadVars>>

\* the chunks of the appends on both partitions: contents that are equal up
\* to case and spacing, near-identical, and unrelated
PartitionCandidates == {entry_site, entry_the_site, entry_site_spaced, entry_half,
                        entry_blank_title, entry_empty_content}
\* append_to_knowledge_base(category, new_entries) with skip_duplicates left
\* at its default, on any partition
AppendSkippingCall ==
    /\ \E category \in Partitions, new_entries \in SeqsUpTo(PartitionCandidates, MaxBatch) :
             append_to_knowledge_base(category, new_entries, TRUE)
    /\ UNCHANGED <<cleanVars, chunkVars, pipeVars, ioVars, uploadVars>>
\* append_to_knowledge_base on any partition, with and without the check
AppendAnywhereCall ==
    /\ \E category \in Partitions, new_entries \in SeqsUpTo(PartitionCandidates, MaxBatch),
          skip_duplicates \in BOOLEAN :
             append_to_knowledge_base(category, new_entries, skip_duplicates)
    /\ UNCHANGED <<cleanVars, chunkVars, pipeVars, ioVars, uploadVars>>

(***************************************************************************)
(* The other operations of the knowledge store                             *)
(***************************************************************************)
\* " HARD HATS"   (title_hats up to case and surrounding whitespace)
title_hats_shout == <<" ","H","A","R","D"," ","H","A","T","S">>
\* 'Use "3-point" contact\n<bullet> C:\tools'   (characters JSON escapes, and one
\* that is not ASCII)
title_quoted == <<"U","s","e"," ","\"","3","-","p","o","i","n","t","\""," ","c","o","n","t","a","c","t","\n","<bullet>"," ","C",":","\\","t","o","o","l","s">>
\* 'a "b"'
keyword_quoted == <<"a"," ","\"","b","\"">>
keyword_ladder == <<"l","a","d","d","e","r">>

entry_shout == [title |-> title_hats_shout, content |-> content_site, category |-> category_ppe]
entry_quoted == [title |-> title_quoted, content |-> content_ladder, category |-> category_ppe,
                 keywords |-> <<keyword_ladder, keyword_quoted>>]

\* the records the partition files of SpecManage hold
ManageEntries == {entry_site, entry_shout, entry_blank_title, entry_no_category, entry_quoted}
\* the largest number of records save_knowledge_base is given in SpecManage
MaxRecords == 3
ManageLists == SeqsUpTo(ManageEntries, MaxRecords)

\* a call raised instead of returning; Python values a call returns
Raised(exception) == [type |-> "raise", exception |-> exception]
List(items) == [type |-> "list", items |-> items]
Integer(value) == [type |-> "int", value |-> value]

\* the text a partition file holds: what json.dump wrote for its entries,
\* unless the file holds some other text
json_file_text(kb_file) ==
    IF "text" \in DOMAIN kb_file THEN kb_file.text ELSE json_dumps(kb_file.entries)
\* json.load(f) of a partition file
json_load(kb_file) == json_loads(json_file_text(kb_file))

\* (mutation: a missing partition loads as an empty list)
load_knowledge_base_or_empty(kb_file) ==
    IF ~kb_file.exists THEN List(<<>>)
    ELSE IF json_load(kb_file).ok THEN List(json_load(kb_file).value)
    ELSE Raised("JSONDecodeError")
\* load_knowledge_base, on the partition file
load_knowledge_base(kb_file) ==
    IF ~kb_file.exists THEN Raised("FileNotFoundError")
    ELSE IF json_load(kb_file).ok THEN List(json_load(kb_file).value)
    ELSE Raised("JSONDecodeError")

\* `if limit`: None and 0 are false
truthy(limit) == limit # None /\ limit.value # 0

\* (mutation: only the title is searched)
search_matches_title_only(entry, query_lower) ==
    str_contains(str_lower(entry_get(entry, "title")), query_lower)
\* search_knowledge_base: the condition on an entry
search_matches(entry, query_lower) ==
    \/ str_contains(str_lower(entry_get(entry, "title")), query_lower)
    \/ str_contains(str_lower(entry_get(entry, "content")), query_lower)

\* search_knowledge_base: the for loop, with its break
RECURSIVE search_loop(_, _, _, _, _)
search_loop(entries, i, query_lower, limit, results) ==
    IF i > Len(entries) THEN results
    ELSE IF search_matches(entries[i], query_lower)
    THEN LET found == Append(results, entries[i])
         IN  IF truthy(limit) /\ Len(found) >= limit.value THEN found
             ELSE search_loop(entries, i + 1, query_lower, limit, found)
    ELSE search_loop(entries, i + 1, query_lower, limit, results)

\* search_knowledge_base after its first line: entries is what
\* load_knowledge_base returned or raised
search_entries(entries, query, limit) ==
    IF entries.type = "raise" THEN entries
    ELSE List(search_loop(entries.items, 1, str_lower(query), limit, <<>>))
\* search_knowledge_base, on the partition file
search_knowledge_base(kb_file, query, limit) ==
    search_entries(load_knowledge_base(kb_file), query, limit)

\* "unknown"
tag_unknown == <<"u","n","k","n","o","w","n">>
RECURSIVE sum_content_length(_)
sum_content_length(entries) ==
    IF entries = <<>> THEN 0
    ELSE Len(entry_get(entries[1], "content")) + sum_content_length(Tail(entries))
\* get_stats, on the partition file
get_stats(kb_file) ==
    LET loaded == load_knowledge_base(kb_file)
        entries == loaded.items
        tag(entry) == IF "category" \in DOMAIN entry THEN entry.category ELSE tag_unknown
        tags == {tag(entries[k]) : k \in DOMAIN entries}
        content_length == sum_content_length(entries)
    IN  IF loaded.type = "raise" THEN loaded
        ELSE [type |-> "dict",
              total_entries |-> Len(entries),
              categories |-> [t \in tags |-> Cardinality({k \in DOMAIN entries : tag(entries[k]) = t})],
              avg_content_length |-> IF entries # <<>> THEN content_length \div Len(entries)
                                     ELSE 0,
              total_content_length |-> content_length]

\* (mutation: the pair is compared as it is stored)
entry_hash_exact(entry) == <<entry.title, entry.content>>
\* clean_and_deduplicate: entry_hash of a valid entry
entry_hash(entry) ==
    <<str_lower(str_strip(entry.title)), str_lower(str_strip(entry.content))>>

\* clean_and_deduplicate: the loop over valid_entries; st = [seen, unique_entries]
RECURSIVE deduplicate_loop(_, _, _)
deduplicate_loop(valid_entries, i, st) ==
    IF i > Len(valid_entries) THEN st.unique_entries
    ELSE IF entry_hash(valid_entries[i]) \notin st.seen
    THEN deduplicate_loop(valid_entries, i + 1,
             [seen |-> st.seen \cup {entry_hash(valid_entries[i])},
              unique_entries |-> Append(st.unique_entries, valid_entries[i])])
    ELSE deduplicate_loop(valid_entries, i + 1, st)

\* clean_and_deduplicate(category)
clean_and_deduplicate(category) ==
    LET loaded == load_knowledge_base(kb_files[category])
        entries == loaded.items
        valid_entries == SelectSeq(entries, validate_entry)
        unique_entries == deduplicate_loop(valid_entries, 1, [seen |-> {}, unique_entries |-> <<>>])
        removed_count == Len(entries) - Len(unique_entries)
        raised == loaded.type = "raise"
        saved == ~raised /\ removed_count > 0
        call == [op |-> "clean_and_deduplicate", category |-> category, args |-> <<>>,
                 before |-> kb_files[category], saved |-> saved,
                 returned |-> IF raised THEN loaded ELSE Integer(Len(unique_entries))]
    IN  /\ kb_files' = IF saved THEN [kb_files EXCEPT ![category] = File(unique_entries)]
                       ELSE kb_files
        /\ UNCHANGED <<content_hashes, imported_documents>>
        /\ last' = call
        /\ repeated' = NoCall

\* a call that reads the partition file and changes nothing
read_call(op, category, args, returned) ==
    LET call == [op |-> op, category |-> category, args |-> args,
                 before |-> kb_files[category], returned |-> returned]
    IN  /\ UNCHANGED <<kb_files, content_hashes, imported_documents>>
        /\ last' = call
        /\ repeated' = NoCall

\* the queries and limits search_knowledge_base is called with: "HAT",
\* "ladder"; no limit, 0, 1, 2
Queries == {<<"H","A","T">>, <<"l","a","d","d","e","r">>}
Limits == {None, Integer(0), Integer(1), Integer(2)}

LoadCall ==
    /\ \E category \in CalledPartitions :
           read_call("load_knowledge_base", category, <<>>, load_knowledge_base(kb_files[category]))
    /\ UNCHANGED <<cleanVars, chunkVars, pipeVars, ioVars, uploadVars>>
SearchCall ==
    /\ \E category \in CalledPartitions :
           LET entries == load_knowledge_base(kb_files[category])
           IN  \E query \in Queries, limit \in Limits :
                   read_call("search_knowledge_base", category, <<query, limit>>,
                             search_entries(entries, query, limit))
    /\ UNCHANGED <<cleanVars, chunkVars, pipeVars, ioVars, uploadVars>>
GetStatsCall ==
    /\ \E category \in CalledPartitions :
           read_call("get_stats", category, <<>>, get_stats(kb_files[category]))
    /\ UNCHANGED <<cleanVars, chunkVars, pipeVars, ioVars, uploadVars>>
CleanAndDeduplicateCall ==
    /\ \E category \in CalledPartitions : clean_and_deduplicate(category)
    /\ UNCHANGED <<cleanVars, chunkVars, pipeVars, ioVars, uploadVars>>
\* save_knowledge_base with the records of SpecManage
SaveRecordsCall ==
    /\ \E category \in CalledPartitions, entries \in ManageLists :
           save_knowledge_base(category, entries)
    /\ UNCHANGED <<cleanVars, chunkVars, pipeVars, ioVars, uploadVars>>

\* the file names and chunk counts record_document_import is called with
Filenames == {"doc1.pdf", "doc2.pdf"}
ChunkCounts == {3, 7}
ImportCategories == {"fall"}

\* a call on the metadata file alone
metadata_call(call) ==
    /\ last' = call
    /\ repeated' = NoCall
    /\ UNCHANGED <<kb_files, content_hashes>>

\* KnowledgeBaseManager(knowledge_base_dir) on the directory of the model:
\* _ensure_metadata_exists finds the metadata file and leaves it
construct ==
    /\ metadata_call([op |-> "__init__", args |-> <<>>, returned |-> None])
    /\ UNCHANGED imported_documents

\* (mutation: no document counts as imported)
is_document_imported_never(filename) ==
    /\ metadata_call([op |-> "is_document_imported", args |-> <<filename>>,
                      filename |-> filename, returned |-> Bool(FALSE)])
    /\ UNCHANGED imported_documents
\* is_document_imported(filename)
is_document_imported(filename) ==
    /\ metadata_call([op |-> "is_document_imported", args |-> <<filename>>,
                      filename |-> filename,
                      returned |-> Bool(filename \in DOMAIN imported_documents)])
    /\ UNCHANGED imported_documents

\* (mutation: the new record replaces the whole map)
record_put_alone(documents, filename, record) == [f \in {filename} |-> record]
\* metadata["imported_documents"][filename] = record
record_put(documents, filename, record) ==
    [f \in DOMAIN documents \cup {filename} |-> IF f = filename THEN record ELSE documents[f]]

\* record_document_import(filename, category, chunks_added)
record_document_import(filename, category, chunks_added) ==
    LET record == [category |-> category, chunks_added |-> chunks_added, imported_at |-> clock]
    IN  /\ metadata_call([op |-> "record_document_import",
                          args |-> <<filename, category, chunks_added>>,
                          filename |-> filename, record |-> record, returned |-> None])
        /\ imported_documents' = record_put(imported_documents, filename, record)

ConstructCall ==
    /\ construct
    /\ UNCHANGED <<cleanVars, chunkVars, pipeVars, ioVars, uploadVars>>
IsDocumentImportedCall ==
    /\ \E filename \in Filenames : is_document_imported(filename)
    /\ UNCHANGED <<cleanVars, chunkVars, pipeVars, ioVars, uploadVars>>
RecordDocumentImportCall ==
    /\ \E filename \in Filenames, category \in ImportCategories, chunks_added \in ChunkCounts :
           record_document_import(filename, category, chunks_added)
    /\ UNCHANGED <<cleanVars, chunkVars, pipeVars, ioVars, uploadVars>>

\* append_to_knowledge_base when open(kb_file, 'w') of save_knowledge_base
\* (line 53) raises: the loop has run and _record_content_hash has written
\* the metadata file; the partition file is as it was
append_to_knowledge_base_open_fails(category, new_entries, skip_duplicates) ==
    LET done == append_loop(new_entries, 1, skip_duplicates, kb_files[category],
                    [entries_to_add |-> <<>>, skipped_duplicates |-> 0,
                     hashes |-> content_hashes[category]])
        call == [op |-> "append", category |-> category,
                 args |-> <<new_entries, skip_duplicates>>,
                 new_entries |-> new_entries, skip_duplicates |-> skip_duplicates,
                 before |-> kb_files[category], hashes_before |-> content_hashes[category],
                 entries_to_add |-> done.entries_to_add,
                 skipped_duplicates |-> done.skipped_duplicates,
                 printed |-> <<>>,
                 returned |-> Raised("OSError")]
    IN  /\ HashesTotal - Len(content_hashes[category]) + Len(done.hashes) <= MaxHashes
        /\ UNCHANGED <<kb_files, imported_documents>>
        /\ content_hashes' = [content_hashes EXCEPT ![category] = done.hashes]
        /\ last' = call
        /\ repeated' = NoCall
AppendOpenFailsCall ==
    /\ \E category \in CalledPartitions, new_entries \in SeqsUpTo(Candidates, MaxBatch),
          skip_duplicates \in BOOLEAN :
             append_to_knowledge_base_open_fails(category, new_entries, skip_duplicates)
    /\ UNCHANGED <<cleanVars, chunkVars, pipeVars, ioVars, uploadVars>>

(***************************************************************************)
(* Normalization pipeline: tools/kb_pipeline.py                            *)
(***************************************************************************)
STOPWORDS == {
    <<"t","h","e">>, <<"a","n","d">>, <<"o","r">>, <<"i","n">>, <<"o","n">>, <<"a","t">>,
    <<"a">>, <<"a","n">>, <<"t","o">>, <<"f","o","r">>, <<"o","f">>, <<"b","y">>,
    <<"w","i","t","h">>, <<"i","s">>, <<"a","r","e">>, <<"b","e">>, <<"a","s">>,
    <<"f","r","o","m">>, <<"t","h","a","t">>, <<"t","h","i","s">>, <<"t","h","e","s","e">>,
    <<"t","h","o","s","e">>, <<"i","t">>, <<"i","t","s">>, <<"w","a","s">>,
    <<"w","e","r","e">>, <<"w","i","l","l">>, <<"c","a","n">>,
    <<"s","h","o","u","l","d">>, <<"m","u","s","t">>, <<"h","a","v","e">>,
    <<"h","a","s">>, <<"h","a","d">>
}
\* the characters of PUNCT_RE
PUNCT == {".", ",", ":", ";", "\"", "(", ")", "?", "!", "[", "]", "/", "\\"}
\* the dashes of replace_splits: hyphen, en dash, em dash
Dashes == {"-", "<endash>", "<emdash>"}

\* str.replace(old, new), old not empty
str_replace(s, old, new) == str_join(new, str_split_on(s, old))
\* re.sub of every character of the set S by the text repl
str_replace_chars(s, S, repl) ==
    str_join(<<>>, [i \in DOMAIN s |-> IF s[i] \in S THEN repl ELSE <<s[i]>>])
\* text.replace('\r\n', '\n').replace('\r', '\n')
normalize_newlines(s) == str_replace(str_replace(s, <<"\r", "\n">>, <<"\n">>), <<"\r">>, <<"\n">>)
\* str.splitlines(): a final line break opens no further line
str_splitlines(s) ==
    LET parts == str_split_on(normalize_newlines(s), <<"\n">>)
    IN  IF parts[Len(parts)] = <<>> THEN SubSeq(parts, 1, Len(parts) - 1) ELSE parts
\* s[0].upper() + s[1:] if s else s
upper_first(s) == IF s = <<>> THEN s ELSE <<UpperChar(s[1])>> \o Tail(s)
\* str.capitalize()
str_capitalize(s) == IF s = <<>> THEN s ELSE <<UpperChar(s[1])>> \o str_lower(Tail(s))
\* the members of q that are not empty
NonEmpty(q) == SelectIdx(q, {i \in DOMAIN q : q[i] # <<>>}, 1)
\* [f(x).strip() for x in q if x.strip()]
StripAll(q) == NonEmpty([i \in DOMAIN q |-> str_strip(q[i])])
\* the list without repetitions, first occurrences kept
Dedup(q) == SelectIdx(q, {i \in DOMAIN q : \A j \in 1..(i - 1) : q[j] # q[i]}, 1)

\* generate_keywords: re.findall(r"\b[a-zA-Z]{4,}\b", title.lower()) without
\* repetitions: the words (maximal runs of \w) of four or more letters only
generate_keywords(title) ==
    LET t == str_lower(title)
        starts == {i \in DOMAIN t :
                     /\ t[i] \in WordChars
                     /\ (i = 1 \/ t[i - 1] \notin WordChars)
                     /\ SkipSet(t, i, WordChars) - i >= 4
                     /\ \A k \in i..(SkipSet(t, i, WordChars) - 1) : t[k] \in AlphaSet}
        words == [i \in DOMAIN t |-> IF i \in starts
                                     THEN SubSeq(t, i, SkipSet(t, i, WordChars) - 1) ELSE <<>>]
    IN  Dedup(NonEmpty(words))

\* normalize_category
normalize_category(cat) ==
    IF cat = <<>> THEN <<>>
    ELSE str_replace(str_replace(str_lower(str_strip(cat)), <<"-">>, <<"_">>), <<" ">>, <<"_">>)

\* '\n'.join([ln.strip() for ln in content.splitlines()])
strip_lines(content) ==
    LET lines == str_splitlines(content)
    IN  str_join(<<"\n">>, [i \in DOMAIN lines |-> str_strip(lines[i])])

\* sentence_ending
sentence_ending(s) == s # <<>> /\ s[Len(s)] \in {".", "!", "?"}

\* re.sub(r'\s+', ' ', s): every run of whitespace becomes one space
\* (what position i contributes: a character that is not whitespace itself,
\* the first character of a run one space, the rest of a run nothing)
sub_whitespace_runs(s, i) ==
    IF s[i] \notin Whitespace THEN <<s[i]>>
    ELSE IF i > 1 /\ s[i - 1] \in Whitespace THEN <<>>
    ELSE <<" ">>
sub_whitespace(s) == Flatten([i \in 1..Len(s) |-> sub_whitespace_runs(s, i)], 1, Len(s))
\* clean_whitespace
clean_whitespace(s) == str_strip(sub_whitespace(s))

\* re.split(r'\n\s*\n', text): a separator runs from the first line feed of
\* a run of whitespace to the last line feed of that run, when these are two;
\* a piece ends before a separator or with the text, and starts after the
\* separator before it or with the text
split_blank_lines(s) ==
    LET feeds(i) == {j \in (i + 1)..(SkipSet(s, i + 1, Whitespace) - 1) : s[j] = "\n"}
        separators == {i \in 1..Len(s) :
                          /\ s[i] = "\n"
                          /\ \A j \in (SkipSetBack(s, i - 1, Whitespace) + 1)..(i - 1) : s[j] # "\n"
                          /\ feeds(i) # {}}
        start(p) == LET before == {i \in separators : i < p}
                    IN  IF before = {} THEN 1 ELSE SetMax(feeds(SetMax(before))) + 1
    IN  Flatten([p \in 1..(Len(s) + 1) |->
                    IF p = Len(s) + 1 \/ p \in separators
                    THEN <<SubSeq(s, start(p), p - 1)>> ELSE <<>>],
                1, Len(s) + 1)

\* re.match(r'^[-<bullet>*]\s+', ln)
is_bullet_line(ln) == Len(ln) >= 2 /\ ln[1] \in {"-", "<bullet>", "*"} /\ ln[2] \in Whitespace

\* bullets_to_sentences: one bullet line as a sentence
bullet_sentence(ln) ==
    LET content == clean_whitespace(str_strip(SubSeq(ln, SkipSet(ln, 2, Whitespace), Len(ln))))
        ended == IF sentence_ending(content) THEN content
                 ELSE SubSeq(content, 1, SkipSetBack(content, Len(content), {"."})) \o <<".">>
    IN  upper_first(ended)

\* bullets_to_sentences: one paragraph (<<>> for a paragraph without lines,
\* which the source skips)
format_paragraph(p) ==
    LET lines == StripAll(str_split_on(p, <<"\n">>))
        joined == clean_whitespace(str_join(<<" ">>, lines))
    IN  IF lines = <<>> THEN <<>>
        ELSE IF \A k \in DOMAIN lines : is_bullet_line(lines[k])
        THEN <<str_join(<<" ">>, [k \in DOMAIN lines |-> bullet_sentence(lines[k])])>>
        ELSE <<IF joined # <<>> /\ ~sentence_ending(joined) THEN joined \o <<".">> ELSE joined>>

\* bullets_to_sentences
format_paragraphs(paras, k) ==
    Flatten([n \in 1..Len(paras) |-> format_paragraph(paras[n])], k, Len(paras))
bullets_to_sentences(text) ==
    str_join(<<"\n", "\n">>,
             format_paragraphs(split_blank_lines(normalize_newlines(text)), 1))

\* s if s.endswith(('.', '!', '?')) else s + '.', then s[0].upper() + s[1:]
item_sentences(items) ==
    [k \in DOMAIN items |->
        upper_first(IF sentence_ending(items[k]) THEN items[k] ELSE items[k] \o <<".">>)]

\* split_inline_bullets.  re.search(r":\s*-\s*", p) finds the first colon that
\* is followed, after optional whitespace, by a hyphen.  The items of
\* re.split(r"\s*-\s*", tail) differ from the pieces between the hyphens only
\* in the whitespace next to the hyphens, which item.strip() removes.
split_inline_bullets(paragraph) ==
    LET p == normalize_newlines(paragraph)
        colons == {i \in DOMAIN p :
                     /\ p[i] = ":"
                     /\ SkipSet(p, i + 1, Whitespace) <= Len(p)
                     /\ p[SkipSet(p, i + 1, Whitespace)] = "-"}
        m_start == SetMin(colons)
        m_end == SkipSet(p, SkipSet(p, m_start + 1, Whitespace) + 1, Whitespace)
        head == str_strip(SubSeq(p, 1, m_start - 1))
        tail == str_strip(SubSeq(p, m_end, Len(p)))
        parts == StripAll(str_split_on(p, <<" ", "-", " ">>))
    IN  IF \E i \in DOMAIN p : p[i] = "\n" THEN paragraph
        ELSE IF colons # {}
        THEN head \o <<":", " ">>
                  \o str_join(<<" ">>, item_sentences(StripAll(str_split_on(tail, <<"-">>))))
        ELSE IF str_contains(p, <<" ", "-", " ">>) /\ Len(parts) > 1
        THEN parts[1] \o <<":", " ">> \o str_join(<<" ">>, item_sentences(Tail(parts)))
        ELSE paragraph

\* re.findall(r"\b\d+[\-<endash><emdash>]\d+\b", s): the matches from position i on
RECURSIVE numeric_ranges_from(_, _)
numeric_ranges_from(s, i) ==
    LET hits == {j \in i..Len(s) :
                   /\ s[j] \in DigitSet
                   /\ (j = 1 \/ s[j - 1] \notin WordChars)
                   /\ LET d == SkipSet(s, j, DigitSet)
                      IN  /\ d + 1 <= Len(s) /\ s[d] \in Dashes /\ s[d + 1] \in DigitSet
                          /\ LET e == SkipSet(s, d + 1, DigitSet)
                             IN  e > Len(s) \/ s[e] \notin WordChars}
        j == SetMin(hits)
        e == SkipSet(s, SkipSet(s, j, DigitSet) + 1, DigitSet)
    IN  IF hits = {} THEN <<>> ELSE <<SubSeq(s, j, e - 1)>> \o numeric_ranges_from(s, e)

\* re.findall(r"\b[\w]+-[\w]+\b", s): the matches from position i on
RECURSIVE hyphen_matches_from(_, _)
hyphen_matches_from(s, i) ==
    LET hits == {j \in i..Len(s) :
                   /\ s[j] \in WordChars
                   /\ (j = 1 \/ s[j - 1] \notin WordChars)
                   /\ LET d == SkipSet(s, j, WordChars)
                      IN  d + 1 <= Len(s) /\ s[d] = "-" /\ s[d + 1] \in WordChars}
        j == SetMin(hits)
        e == SkipSet(s, SkipSet(s, j, WordChars) + 1, WordChars)
    IN  IF hits = {} THEN <<>> ELSE <<SubSeq(s, j, e - 1)>> \o hyphen_matches_from(s, e)
\* hyphen_tokens
hyphen_tokens(s) == SeqToSet(hyphen_matches_from(s, 1))

\* replace_splits: current.replace(c, token) if c in current
replace_if_in(current, c, token) ==
    IF str_contains(current, c) THEN str_replace(current, c, token) ELSE current

\* replace_splits: the first loop, over the numeric ranges of the backup
RECURSIVE replace_ranges(_, _, _)
replace_ranges(current, matches, k) ==
    IF k > Len(matches) THEN current
    ELSE LET match == matches[k]
             alt == str_replace_chars(match, Dashes, <<".", " ">>)
             alt2 == str_replace(match, <<"-">>, <<" ", "-", " ">>)
         IN  replace_ranges(replace_if_in(replace_if_in(current, alt, match), alt2, match),
                            matches, k + 1)

\* replace_splits: the second loop, over the hyphenated tokens taken in the
\* order tokens (a Python set has no fixed iteration order)
RECURSIVE replace_tokens(_, _, _)
replace_tokens(current, tokens, k) ==
    IF k > Len(tokens) THEN current
    ELSE LET token == tokens[k]
             parts == str_split_on(token, <<"-">>)
             a == parts[1]
             b == parts[2]
             c1 == replace_if_in(current, a \o <<".", " ">> \o b, token)
             c2 == replace_if_in(c1, a \o <<".", " ">> \o str_capitalize(b), token)
             c3 == replace_if_in(c2, a \o <<" ">> \o b, token)
             c4 == replace_if_in(c3, a \o <<" ", ".", " ">> \o b, token)
         IN  replace_tokens(c4, tokens, k + 1)

\* the orders a set can be iterated in
Orders(S) == {q \in [1..Cardinality(S) -> S] : \A i, j \in DOMAIN q : i # j => q[i] # q[j]}

\* replace_splits: the new content.  The flag changed of the source is set
\* whenever a replace ran, also when it replaced a text by itself.
replace_splits(current, backup, tokens) ==
    replace_tokens(replace_ranges(current, numeric_ranges_from(backup, 1), 1), tokens, 1)

\* replace_splits: the flag changed
RECURSIVE ranges_changed(_, _, _)
ranges_changed(current, matches, k) ==
    IF k > Len(matches) THEN FALSE
    ELSE LET match == matches[k]
             alt == str_replace_chars(match, Dashes, <<".", " ">>)
             alt2 == str_replace(match, <<"-">>, <<" ", "-", " ">>)
             c1 == replace_if_in(current, alt, match)
         IN  \/ str_contains(current, alt)
             \/ str_contains(c1, alt2)
             \/ ranges_changed(replace_if_in(c1, alt2, match), matches, k + 1)
RECURSIVE tokens_changed(_, _, _)
tokens_changed(current, tokens, k) ==
    IF k > Len(tokens) THEN FALSE
    ELSE LET token == tokens[k]
             parts == str_split_on(token, <<"-">>)
             a == parts[1]
             b == parts[2]
             k1 == a \o <<".", " ">> \o b
             k2 == a \o <<".", " ">> \o str_capitalize(b)
             k3 == a \o <<" ">> \o b
             k4 == a \o <<" ", ".", " ">> \o b
             c1 == replace_if_in(current, k1, token)
             c2 == replace_if_in(c1, k2, token)
             c3 == replace_if_in(c2, k3, token)
         IN  \/ str_contains(current, k1) \/ str_contains(c1, k2)
             \/ str_contains(c2, k3) \/ str_contains(c3, k4)
             \/ tokens_changed(replace_tokens(current, <<token>>, 1), tokens, k + 1)
replace_splits_changed(current, backup, tokens) ==
    \/ ranges_changed(current, numeric_ranges_from(backup, 1), 1)
    \/ tokens_changed(replace_ranges(current, numeric_ranges_from(backup, 1), 1), tokens, 1)

\* clean_text_for_search
clean_text_for_search(s) ==
    LET spaced == str_replace(str_replace(str_replace(s, <<"\r", "\n">>, <<" ">>),
                                          <<"\n">>, <<" ">>), <<"\r">>, <<" ">>)
        lowered == str_lower(str_strip(sub_whitespace(str_replace_chars(spaced, PUNCT, <<" ">>))))
        tokens == str_split(lowered)
    IN  str_join(<<" ">>, SelectIdx(tokens, {i \in DOMAIN tokens : tokens[i] \notin STOPWORDS}, 1))

\* clean_keywords: one keyword (<<>> when nothing is left of it)
clean_keyword(kw) ==
    LET k == str_strip(str_lower(str_replace_chars(kw, PUNCT, <<>>)))
        parts == str_split(k)
    IN  str_join(<<" ">>, SelectIdx(parts, {i \in DOMAIN parts : parts[i] \notin STOPWORDS}, 1))
\* clean_keywords
clean_keywords(keywords) == Dedup(NonEmpty([i \in DOMAIN keywords |-> clean_keyword(keywords[i])]))

(***************************************************************************)
(* The stages of the pipeline on a partition file                          *)
(***************************************************************************)
\* entry[field] = value
entry_put(entry, field, value) ==
    [f \in DOMAIN entry \cup {field} |-> IF f = field THEN value ELSE entry[f]]

\* improve_file: the body of the loop over the entries
improve_entry(entry) ==
    LET title == entry_get(entry, "title")
        orig_cat == entry_get(entry, "category")
        cat == normalize_category(orig_cat)
        e1 == IF cat # orig_cat THEN entry_put(entry, "category", cat) ELSE entry
        e2 == IF "source" \notin DOMAIN e1 THEN entry_put(e1, "source", <<>>) ELSE e1
        e3 == IF "keywords" \notin DOMAIN e2
              THEN entry_put(e2, "keywords", generate_keywords(title)) ELSE e2
    IN  IF "content" \in DOMAIN e3 /\ strip_lines(e3.content) # e3.content
        THEN entry_put(e3, "content", strip_lines(e3.content))
        ELSE e3

\* format_file: the body of the loop over the entries
format_entry(entry) ==
    IF "content" \notin DOMAIN entry \/ str_strip(entry.content) = <<>> THEN entry
    ELSE IF bullets_to_sentences(entry.content) # entry.content
    THEN entry_put(entry, "content", bullets_to_sentences(entry.content))
    ELSE entry

\* fix_inline_file: the body of the loop over the entries
fix_inline_entry(entry) ==
    IF "content" \notin DOMAIN entry THEN entry
    ELSE IF split_inline_bullets(entry.content) # entry.content
    THEN entry_put(entry, "content", split_inline_bullets(entry.content))
    ELSE entry

\* clean_file: the body of the loop over the entries
clean_entry(entry) ==
    LET orig_kw == IF "keywords" \in DOMAIN entry THEN entry.keywords ELSE <<>>
        new_kw == clean_keywords(orig_kw)
        e1 == IF new_kw # orig_kw THEN entry_put(entry, "keywords", new_kw) ELSE entry
        new_search == clean_text_for_search(entry_get(entry, "content"))
    IN  IF "search_text" \notin DOMAIN e1 \/ e1.search_text # new_search
        THEN entry_put(e1, "search_text", new_search)
        ELSE e1

\* restore_file: bak_map.get(title), the last entry of the backup with the title
bak_lookup(bak, title) ==
    LET hits == {k \in DOMAIN bak : entry_get(bak[k], "title") = title}
    IN  IF hits = {} THEN None ELSE bak[SetMax(hits)]

\* restore_file: the hyphenated tokens replace_splits iterates over for an entry
restore_tokens(entry, bak) ==
    LET bak_entry == bak_lookup(bak, entry_get(entry, "title"))
    IN  IF bak_entry = None THEN {} ELSE hyphen_tokens(entry_get(bak_entry, "content"))

\* restore_file: the body of the loop over the entries, the tokens iterated in
\* the order tokens
restore_entry(entry, bak, tokens) ==
    LET bak_entry == bak_lookup(bak, entry_get(entry, "title"))
        cur_content == entry_get(entry, "content")
        bak_content == entry_get(bak_entry, "content")
    IN  IF bak_entry = None THEN entry
        ELSE IF replace_splits_changed(cur_content, bak_content, tokens)
        THEN entry_put(entry, "content", replace_splits(cur_content, bak_content, tokens))
        ELSE entry
restore_changed(entry, bak, tokens) ==
    LET bak_entry == bak_lookup(bak, entry_get(entry, "title"))
    IN  /\ bak_entry # None
        /\ replace_splits_changed(entry_get(entry, "content"), entry_get(bak_entry, "content"), tokens)

\* the iteration orders restore_file can meet, one per entry of cur
TokenOrders(cur, bak) ==
    LET all == UNION {Orders(restore_tokens(cur[k], bak)) : k \in DOMAIN cur}
    IN  {o \in [DOMAIN cur -> all] : \A k \in DOMAIN cur : o[k] \in Orders(restore_tokens(cur[k], bak))}

\* the suffixes of the backup names, in the order sorted() puts them
BackupSuffixes == <<"bak", "clean.bak", "fmt.bak", "inlinefix.bak">>
SuffixRank(suffix) == CHOOSE r \in DOMAIN BackupSuffixes : BackupSuffixes[r] = suffix
\* file names <base>.<ts>.<suffix> compared as sorted() compares them
NameBefore(b1, b2) ==
    \/ b1.ts < b2.ts
    \/ b1.ts = b2.ts /\ SuffixRank(b1.suffix) < SuffixRank(b2.suffix)

\* find_latest_backup_for
find_latest_backup_for(base) ==
    LET files == {b \in backups : b.base = base}
    IN  IF files = {} THEN None
        ELSE CHOOSE b \in files : \A other \in files : other = b \/ NameBefore(other, b)

\* shutil.copy2(path, backup_path): a backup of the same name is overwritten
copy2(base, suffix, entries) ==
    {b \in backups : ~(b.base = base /\ b.ts = clock /\ b.suffix = suffix)}
        \cup {[base |-> base, ts |-> clock, suffix |-> suffix, entries |-> entries]}

\* the stages main runs with --all
stages == <<"improve", "format", "fix_inline", "restore", "clean">>

\* main: the position after the current file of the current stage
PipelineAdvance ==
    IF pipe_file < Len(pipe_files)
    THEN /\ pipe_file' = pipe_file + 1
         /\ UNCHANGED <<pipe_stage, pipe_pc, pipe_after>>
    ELSE IF pipe_stage < Len(stages)
    THEN /\ pipe_file' = 1
         /\ pipe_stage' = pipe_stage + 1
         /\ UNCHANGED <<pipe_pc, pipe_after>>
    ELSE /\ pipe_pc' = "done"
         /\ pipe_after' = Append(pipe_after, kb_files')
         /\ UNCHANGED <<pipe_stage, pipe_file>>

\* a line a stage prints about a file
Printed(message, path) == [message |-> message, path |-> path]

\* (mutation: a file that does not parse is taken for an empty list)
stage_load_lenient(kb_file) ==
    IF "text" \in DOMAIN kb_file /\ json_loads(kb_file.text).ok THEN json_loads(kb_file.text)
    ELSE JsonOk(kb_file.entries, 0)
\* try: with open(path, 'r', encoding='utf-8') as f: data = json.load(f)
\* except Exception: ok is whether the file text parsed. A file that
\* json.dump wrote holds the text of its entries, which parses to them (the
\* round trip of save and load); only a text of another origin is parsed here
stage_load(kb_file) ==
    IF "text" \in DOMAIN kb_file THEN json_loads(kb_file.text)
    ELSE JsonOk(kb_file.entries, 0)

\* the except branch of a stage: the failure is printed and the stage returns
\* False; process_files goes on with the next file
SkipFile(stage, message) ==
    LET p == pipe_files[pipe_file]
    IN  /\ UNCHANGED <<backups, kb_files>>
        /\ pipe_last' = [stage |-> stage, path |-> p, events |-> <<>>,
                         printed |-> Printed(message, p)]
        /\ PipelineAdvance
        /\ UNCHANGED <<pipe_files, clock, content_hashes, imported_documents, last, repeated,
                       cleanVars, chunkVars, ioVars, uploadVars>>

\* the tail shared by improve_file, format_file, fix_inline_file and
\* clean_file: when the entries changed, copy the file to backups/ and then
\* write the new entries over it
BackupAndWrite(stage, suffix, data, new_entries, changed_message, unchanged_message) ==
    LET p == pipe_files[pipe_file]
    IN  /\ IF new_entries # data
           THEN /\ backups' = copy2(p, suffix, data)
                /\ kb_files' = [kb_files EXCEPT ![p] = File(new_entries)]
                /\ pipe_last' = [stage |-> stage, path |-> p, before |-> data,
                                 events |-> <<[op |-> "copy2", entries |-> data], [op |-> "write"]>>,
                                 printed |-> Printed(changed_message, p)]
           ELSE /\ UNCHANGED <<backups, kb_files>>
                /\ pipe_last' = [stage |-> stage, path |-> p, before |-> data, events |-> <<>>,
                                 printed |-> Printed(unchanged_message, p)]
        /\ PipelineAdvance
        /\ UNCHANGED <<pipe_files, clock, content_hashes, imported_documents, last, repeated,
                       cleanVars, chunkVars, ioVars, uploadVars>>

\* improve_file
ImproveFile ==
    /\ pipe_pc = "run"
    /\ stages[pipe_stage] = "improve"
    /\ LET loaded == stage_load(kb_files[pipe_files[pipe_file]])
           data == loaded.value
       IN  IF ~loaded.ok THEN SkipFile("improve", "Skipping: failed to parse JSON")
           ELSE BackupAndWrite("improve", "bak", data, [k \in DOMAIN data |-> improve_entry(data[k])],
                               "Updated", "No changes needed")

\* format_file
FormatFile ==
    /\ pipe_pc = "run"
    /\ stages[pipe_stage] = "format"
    /\ LET loaded == stage_load(kb_files[pipe_files[pipe_file]])
           data == loaded.value
       IN  IF ~loaded.ok THEN SkipFile("format", "Skipping: JSON load error")
           ELSE BackupAndWrite("format", "fmt.bak", data, [k \in DOMAIN data |-> format_entry(data[k])],
                               "Formatted", "No formatting changes")

\* fix_inline_file
FixInlineFile ==
    /\ pipe_pc = "run"
    /\ stages[pipe_stage] = "fix_inline"
    /\ LET loaded == stage_load(kb_files[pipe_files[pipe_file]])
           data == loaded.value
       IN  IF ~loaded.ok THEN SkipFile("fix_inline", "Skipping: JSON load error")
           ELSE BackupAndWrite("fix_inline", "inlinefix.bak", data,
                               [k \in DOMAIN data |-> fix_inline_entry(data[k])],
                               "Fixed inline bullets", "No inline bullets fixed")

\* clean_file
CleanFile ==
    /\ pipe_pc = "run"
    /\ stages[pipe_stage] = "clean"
    /\ LET loaded == stage_load(kb_files[pipe_files[pipe_file]])
           data == loaded.value
       IN  IF ~loaded.ok THEN SkipFile("clean", "Skipping: failed to parse JSON")
           ELSE BackupAndWrite("clean", "clean.bak", data, [k \in DOMAIN data |-> clean_entry(data[k])],
                               "Cleaned", "No changes")

\* restore_file
RestoreFile ==
    LET p == pipe_files[pipe_file]
        backup == find_latest_backup_for(p)
        loaded == stage_load(kb_files[p])
        cur == loaded.value
    IN  /\ pipe_pc = "run"
        /\ stages[pipe_stage] = "restore"
        /\ IF backup = None
           THEN /\ UNCHANGED kb_files
                /\ pipe_last' = [stage |-> "restore", path |-> p, events |-> <<>>,
                                 printed |-> Printed("No backup found; skipping", p)]
           ELSE IF ~loaded.ok
           THEN /\ UNCHANGED kb_files
                /\ pipe_last' = [stage |-> "restore", path |-> p, events |-> <<>>,
                                 printed |-> Printed("Skipping: failed to read JSON", p)]
           ELSE \E order \in TokenOrders(cur, backup.entries) :
                   IF \E k \in DOMAIN cur : restore_changed(cur[k], backup.entries, order[k])
                   THEN /\ kb_files' = [kb_files EXCEPT ![p] =
                               File([k \in DOMAIN cur |-> restore_entry(cur[k], backup.entries, order[k])])]
                        /\ pipe_last' = [stage |-> "restore", path |-> p, before |-> cur,
                                         events |-> <<[op |-> "write"]>>,
                                         printed |-> Printed("Restored artifacts", p)]
                   ELSE /\ UNCHANGED kb_files
                        /\ pipe_last' = [stage |-> "restore", path |-> p, before |-> cur,
                                         events |-> <<>>,
                                         printed |-> Printed("No artifacts to restore", p)]
        /\ PipelineAdvance
        /\ UNCHANGED <<pipe_files, backups, clock, content_hashes, imported_documents, last, repeated,
                       cleanVars, chunkVars, ioVars, uploadVars>>

\* the largest number of runs of main and the last second of the clock
MaxRuns == 2
MaxClock == 2

\* main is run again over the same directory
PipelineAgain ==
    /\ pipe_pc = "done"
    /\ Len(pipe_after) < MaxRuns
    /\ pipe_pc' = "run"
    /\ pipe_stage' = 1
    /\ pipe_file' = 1
    /\ UNCHANGED <<pipe_files, pipe_after, pipe_last, backups, clock, storeVars, cleanVars, chunkVars, ioVars, uploadVars>>

\* main --all is started on the directory of the knowledge store: files is
\* the listing of list_kb_files; without a partition file main returns 1
PipelineStart ==
    /\ pipe_pc = "idle"
    /\ \E p \in Partitions : kb_files[p].exists
    /\ pipe_pc' = "run"
    /\ pipe_files' \in Orders({p \in Partitions : kb_files[p].exists})
    /\ pipe_stage' = 1
    /\ pipe_file' = 1
    /\ UNCHANGED <<pipe_after, pipe_last, backups, clock, storeVars, cleanVars, chunkVars, ioVars, uploadVars>>

\* a second passes
Tick ==
    /\ pipe_pc # "idle"
    /\ clock < MaxClock
    /\ clock' = clock + 1
    /\ UNCHANGED <<pipe_pc, pipe_files, pipe_stage, pipe_file, pipe_after, pipe_last, backups,
                   storeVars, cleanVars, chunkVars, ioVars, uploadVars>>

(***************************************************************************)
(* Partition files the pipeline is run on                                  *)
(***************************************************************************)
\* {"title": "Ladder Safety Tips", "content": " Inspect the ladder \nTag defects", "category": "Fall Protection"}
kb_raw == [
    title |-> <<"L","a","d","d","e","r"," ","S","a","f","e","t","y"," ","T","i","p","s">>,
    content |-> <<" ","I","n","s","p","e","c","t"," ","t","h","e"," ","l","a","d","d","e","r"," ","\n","T","a","g"," ","d","e","f","e","c","t","s">>,
    category |-> <<"F","a","l","l"," ","P","r","o","t","e","c","t","i","o","n">>]
\* {"title": "Ladder Checks", "content": "- inspect the ladder\n- tag defects", "category": "fall"}
kb_bullets == [
    title |-> <<"L","a","d","d","e","r"," ","C","h","e","c","k","s">>,
    content |-> <<"-"," ","i","n","s","p","e","c","t"," ","t","h","e"," ","l","a","d","d","e","r","\n","-"," ","t","a","g"," ","d","e","f","e","c","t","s">>,
    category |-> <<"f","a","l","l">>]
\* {"title": "Power Lines", "content": "Keep clear: - 10-15 feet from lines - wear non-slip boots", "category": "electrical"}
kb_inline == [
    title |-> <<"P","o","w","e","r"," ","L","i","n","e","s">>,
    content |-> <<"K","e","e","p"," ","c","l","e","a","r",":"," ","-"," ","1","0","-","1","5"," ","f","e","e","t"," ","f","r","o","m"," ","l","i","n","e","s"," ","-"," ","w","e","a","r"," ","n","o","n","-","s","l","i","p"," ","b","o","o","t","s">>,
    category |-> <<"e","l","e","c","t","r","i","c","a","l">>]
\* {"title": "Harness", "content": "Wear a harness - always", "category": "fall"}
kb_dash == [
    title |-> <<"H","a","r","n","e","s","s">>,
    content |-> <<"W","e","a","r"," ","a"," ","h","a","r","n","e","s","s"," ","-"," ","a","l","w","a","y","s">>,
    category |-> <<"f","a","l","l">>]
\* {"title": "Harness", "content": "Use fall-arrest gear, not fall arrest nets.", "category": "fall", "source": "", "keywords": ["harness"]}
kb_normalized == [
    title |-> <<"H","a","r","n","e","s","s">>,
    content |-> <<"U","s","e"," ","f","a","l","l","-","a","r","r","e","s","t"," ","g","e","a","r",","," ","n","o","t"," ","f","a","l","l"," ","a","r","r","e","s","t"," ","n","e","t","s",".">>,
    category |-> <<"f","a","l","l">>,
    source |-> <<>>,
    keywords |-> <<<<"h","a","r","n","e","s","s">>>>]
\* {"title": "Guardrails", "content": "Install guardrails.", "category": "fall", "source": "", "keywords": ["guardrails"], "search_text": "install guardrails"}
kb_done == [
    title |-> <<"G","u","a","r","d","r","a","i","l","s">>,
    content |-> <<"I","n","s","t","a","l","l"," ","g","u","a","r","d","r","a","i","l","s",".">>,
    category |-> <<"f","a","l","l">>,
    source |-> <<>>,
    keywords |-> <<<<"g","u","a","r","d","r","a","i","l","s">>>>,
    search_text |-> <<"i","n","s","t","a","l","l"," ","g","u","a","r","d","r","a","i","l","s">>]

\* a partition file cut off in the middle of a record: '[\n  {\n    "title": "Power'
text_truncated == <<"[","\n"," "," ","{","\n"," "," "," "," ","\"","t","i","t","l","e","\"",":"," ","\"","P","o","w","e","r">>
TruncatedFile == [exists |-> TRUE, entries |-> <<>>, text |-> text_truncated]

PipelineEntries == {kb_raw, kb_bullets, kb_inline, kb_dash, kb_normalized, kb_done}
\* the largest number of entries of a partition file
MaxFileEntries == 2
PipelineFiles ==
    {f \in [Partitions -> {NoFile} \cup {File(es) : es \in SeqsUpTo(PipelineEntries, MaxFileEntries)}] :
        /\ f["fall"].exists /\ f["fall"].entries # <<>>
        /\ f["electrical"] \in {NoFile, File(<<kb_inline>>)}}
    \cup {[fall |-> File(<<e>>), electrical |-> TruncatedFile] : e \in PipelineEntries}

PipelineIdle ==
    /\ pipe_pc = "idle"
    /\ pipe_files = <<>>
    /\ pipe_stage = 1
    /\ pipe_file = 1
    /\ pipe_after = <<>>
    /\ pipe_last = NoCall
    /\ backups = {}
    /\ clock = 0

\* main --all starts on a directory without backups; files is the listing of
\* list_kb_files, whose order os.listdir does not fix
PipelineInit ==
    /\ kb_files \in PipelineFiles
    /\ content_hashes = [p \in Partitions |-> <<>>]
    /\ imported_documents = NoDocuments
    /\ last = NoCall
    /\ repeated = NoCall
    /\ pipe_pc = "run"
    /\ pipe_files \in Orders({p \in Partitions : kb_files[p].exists})
    /\ pipe_stage = 1
    /\ pipe_file = 1
    /\ pipe_after = <<>>
    /\ pipe_last = NoCall
    /\ backups = {}
    /\ clock = 0

(***************************************************************************)
(* Writing a JSON file: with open(path, 'w') as f: json.dump(data, f)      *)
(* (save_knowledge_base, _save_metadata and the stages of the pipeline),   *)
(* while another process reads the file                                    *)
(***************************************************************************)
PartitionPath == "fall_base.json"
MetadataPath == ".import_metadata.json"
Paths == {PartitionPath, MetadataPath}
\* the writers and the file each writes
Writers == [save_knowledge_base |-> PartitionPath, _save_metadata |-> MetadataPath,
            format_file |-> PartitionPath]

\* json.dump passes the text to f.write in chunks: the opening bracket, the
\* items, the closing bracket
json_chunks(data) ==
    IF data = <<>> THEN <<[chunk |-> "empty"]>>
    ELSE <<[chunk |-> "open"]>>
         \o [k \in DOMAIN data |-> [chunk |-> "item", value |-> data[k]]]
         \o <<[chunk |-> "close"]>>

\* the number of chunks the file object buffers before it flushes them to disk
\* (io.DEFAULT_BUFFER_SIZE, scaled to chunks)
BufferChunks == 2
\* the largest number of items of a file
MaxItems == 2
\* what the partition file and the metadata file hold: entries, recorded hashes
PathData(path) ==
    IF path = PartitionPath THEN SeqsUpTo({entry_site, entry_half}, MaxItems)
    ELSE SeqsUpTo({content_hash(content_site), content_hash(content_half)}, MaxItems)

IoIdle ==
    /\ io_pc = "idle"
    /\ io_call = NoCall
    /\ io_disk = [path \in Paths |-> json_chunks(<<>>)]
    /\ io_old = io_disk
    /\ io_buffer = <<>>
    /\ io_written = 0
    /\ io_seen = NoCall

\* both files hold complete JSON text; a writer is about to run
IoInit ==
    /\ io_pc = "called"
    /\ \E op \in DOMAIN Writers : \E data \in PathData(Writers[op]) :
           io_call = [op |-> op, path |-> Writers[op], data |-> data]
    /\ \E old \in PathData(PartitionPath) :
           io_disk = [path \in Paths |-> IF path = PartitionPath THEN json_chunks(old)
                                         ELSE json_chunks(<<>>)]
    /\ io_old = io_disk
    /\ io_buffer = <<>>
    /\ io_written = 0
    /\ io_seen = NoCall

\* open(path, 'w') truncates the file
WriterOpen ==
    /\ io_pc = "called"
    /\ io_disk' = [io_disk EXCEPT ![io_call.path] = <<>>]
    /\ io_pc' = "open"
    /\ UNCHANGED <<io_call, io_old, io_buffer, io_written, io_seen,
                   storeVars, cleanVars, chunkVars, pipeVars, uploadVars>>

\* json.dump writes the next chunk; a full buffer is flushed to the file
WriterWrite ==
    /\ io_pc = "open"
    /\ io_written < Len(json_chunks(io_call.data))
    /\ io_written' = io_written + 1
    /\ LET buffered == Append(io_buffer, json_chunks(io_call.data)[io_written + 1])
       IN  IF Len(buffered) >= BufferChunks
           THEN /\ io_disk' = [io_disk EXCEPT ![io_call.path] = @ \o buffered]
                /\ io_buffer' = <<>>
           ELSE /\ io_buffer' = buffered
                /\ UNCHANGED io_disk
    /\ UNCHANGED <<io_pc, io_call, io_old, io_seen, storeVars, cleanVars, chunkVars, pipeVars, uploadVars>>

\* leaving the with block closes the file, which flushes the buffer
WriterClose ==
    /\ io_pc = "open"
    /\ io_written = Len(json_chunks(io_call.data))
    /\ io_disk' = [io_disk EXCEPT ![io_call.path] = @ \o io_buffer]
    /\ io_buffer' = <<>>
    /\ io_pc' = "closed"
    /\ UNCHANGED <<io_call, io_old, io_written, io_seen, storeVars, cleanVars, chunkVars, pipeVars, uploadVars>>

\* another process reads a file
ReaderRead ==
    /\ io_pc # "idle"
    /\ \E path \in Paths : io_seen' = [path |-> path, content |-> io_disk[path]]
    /\ UNCHANGED <<io_pc, io_call, io_disk, io_old, io_buffer, io_written,
                   storeVars, cleanVars, chunkVars, pipeVars, uploadVars>>

(***************************************************************************)
(* The upload flow of the application: streamlit_app.py, "Process          *)
(* Document"                                                               *)
(***************************************************************************)
\* the order of the keys of categorized_chunks (pdf_categorizer.py line 92),
\* restricted to the partitions of the model
UploadOrder == <<"fall", "electrical">>
\* the largest number of chunks the categorizer puts into one partition
MaxCategorized == 1
\* what process_document and categorize_chunks make of an uploaded document:
\* the language model decides the partition of each chunk
Categorizations == [Partitions -> SeqsUpTo({entry_site, entry_half}, MaxCategorized)]
\* the largest number of times the button is pressed
MaxUploads == 3

UploadIdle ==
    /\ upload_pc = "idle"
    /\ upload_name = ""
    /\ upload_before = NoCall
    /\ upload_chunks = [p \in Partitions |-> <<>>]
    /\ upload_k = 1
    /\ upload_total_saved = 0
    /\ upload_log = <<>>
    /\ upload_count = 0

\* the knowledge base directory the application is started on: the base
\* file of a partition may be missing
UploadInit ==
    /\ kb_files \in {[p \in Partitions |-> File(<<>>)],
                     [p \in Partitions |-> IF p = "fall" THEN File(<<>>) ELSE NoFile]}
    /\ content_hashes = [p \in Partitions |-> <<>>]
    /\ imported_documents = NoDocuments
    /\ last = NoCall
    /\ repeated = NoCall
    /\ UploadIdle

\* the button is pressed on an uploaded file: lines 239-252; the branch is
\* taken on what is_document_imported returns
UploadRequest ==
    /\ upload_pc \in {"idle", "done", "skipped", "failed"}
    /\ upload_count < MaxUploads
    /\ \E filename \in Filenames :
           /\ is_document_imported(filename)
           /\ upload_name' = filename
    /\ upload_pc' = IF last'.returned.value THEN "skipped" ELSE "process"
    /\ upload_before' = [kb_files |-> kb_files, content_hashes |-> content_hashes,
                         imported_documents |-> imported_documents]
    /\ upload_chunks' = [p \in Partitions |-> <<>>]
    /\ upload_k' = 1
    /\ upload_total_saved' = 0
    /\ upload_log' = <<>>
    /\ upload_count' = upload_count + 1
    /\ UNCHANGED <<cleanVars, chunkVars, pipeVars, ioVars>>

\* lines 256-270: the document is extracted, cleaned, chunked and categorized
UploadProcess ==
    /\ upload_pc = "process"
    /\ upload_chunks' \in Categorizations
    /\ upload_log' = Append(upload_log, [op |-> "process_document", outcome |-> "returned"])
    /\ upload_pc' = "append"
    /\ UNCHANGED <<upload_name, upload_before, upload_k, upload_total_saved, upload_count,
                   storeVars, cleanVars, chunkVars, pipeVars, ioVars>>

\* the same lines when the extraction or the language model raises: the
\* except clause of line 324 reports the error
UploadProcessFails ==
    /\ upload_pc = "process"
    /\ upload_log' = Append(upload_log, [op |-> "process_document", outcome |-> "raised"])
    /\ upload_pc' = "failed"
    /\ UNCHANGED <<upload_name, upload_before, upload_chunks, upload_k, upload_total_saved,
                   upload_count, storeVars, cleanVars, chunkVars, pipeVars, ioVars>>

\* the loop of lines 281-301 goes on with the next partition, or ends
UploadAdvance ==
    /\ upload_k' = upload_k + 1
    /\ upload_pc' = IF upload_k < Len(UploadOrder) THEN "append" ELSE "record"

\* one iteration of the loop of lines 281-301: the chunks of a partition are
\* appended to its base file when it exists
UploadAppend ==
    /\ upload_pc = "append"
    /\ LET category == UploadOrder[upload_k]
           cat_chunks == upload_chunks[category]
       IN  IF cat_chunks # <<>> /\ kb_files[category].exists
           THEN /\ append_to_knowledge_base(category, cat_chunks, TRUE)
                /\ upload_total_saved' = upload_total_saved
                       + Len(kb_files'[category].entries) - Len(kb_files[category].entries)
                /\ upload_log' = Append(upload_log, [op |-> "append", category |-> category,
                                                     outcome |-> "returned"])
           ELSE /\ UNCHANGED <<storeVars, upload_total_saved>>
                /\ upload_log' = IF cat_chunks # <<>>
                                 THEN Append(upload_log, [op |-> "warning", category |-> category,
                                                          outcome |-> "Base file not found"])
                                 ELSE upload_log
    /\ UploadAdvance
    /\ UNCHANGED <<upload_name, upload_before, upload_chunks, upload_count,
                   cleanVars, chunkVars, pipeVars, ioVars>>

\* the same iteration when the write of the base file raises:
\* append_chunks_to_base_file raises again (line 634) and the except clause
\* of line 324 ends the flow
UploadAppendFails ==
    /\ upload_pc = "append"
    /\ LET category == UploadOrder[upload_k]
           cat_chunks == upload_chunks[category]
       IN  /\ cat_chunks # <<>>
           /\ kb_files[category].exists
           /\ append_to_knowledge_base_open_fails(category, cat_chunks, TRUE)
           /\ upload_log' = Append(upload_log, [op |-> "append", category |-> category,
                                                outcome |-> "raised"])
    /\ upload_pc' = "failed"
    /\ UNCHANGED <<upload_name, upload_before, upload_chunks, upload_k, upload_total_saved,
                   upload_count, cleanVars, chunkVars, pipeVars, ioVars>>

\* lines 303-308: the document is recorded as imported
UploadRecord ==
    /\ upload_pc = "record"
    /\ record_document_import(upload_name, "mixed", upload_total_saved)
    /\ upload_log' = Append(upload_log, [op |-> "record_document_import", outcome |-> "returned"])
    /\ upload_pc' = "done"
    /\ UNCHANGED <<upload_name, upload_before, upload_chunks, upload_k, upload_total_saved,
                   upload_count, cleanVars, chunkVars, pipeVars, ioVars>>

(***************************************************************************)
(* Specifications                                                          *)
(***************************************************************************)
\* the knowledge store under any sequence of calls
Init == StoreInit /\ CleanIdle /\ ChunkIdle /\ PipelineIdle /\ IoIdle /\ UploadIdle
Next == AppendCall \/ SaveCall \/ DuplicateQueryCall
Spec == Init /\ [][Next]_vars

\* the partition files under save, load and clean-up
InitManage == Init
NextManage ==
    \/ SaveRecordsCall
    \/ LoadCall
    \/ CleanAndDeduplicateCall
SpecManage == InitManage /\ [][NextManage]_vars

\* the calls that load a partition, on partitions with and without a file
InitLoad == Init
NextLoad ==
    \/ AppendCall
    \/ DuplicateQueryCall
    \/ LoadCall
    \/ SearchCall
    \/ GetStatsCall
    \/ CleanAndDeduplicateCall
SpecLoad == InitLoad /\ [][NextLoad]_vars

\* the metadata file under the calls that write it
InitMetadata == Init
NextMetadata ==
    \/ ConstructCall
    \/ RecordDocumentImportCall
    \/ IsDocumentImportedCall
    \/ AppendCall
SpecMetadata == InitMetadata /\ [][NextMetadata]_vars

\* append_to_knowledge_base, returning or failing at the write of the
\* partition file
InitAppend == Init
NextAppend ==
    \/ AppendCall
    \/ AppendOpenFailsCall
SpecAppend == InitAppend /\ [][NextAppend]_vars

\* clean_text on a document, then again on its own output
InitClean == StoreInit /\ CleanInit /\ ChunkIdle /\ PipelineIdle /\ IoIdle /\ UploadIdle
NextClean ==
    \/ RemoveUnwantedSections
    \/ FilterParagraphs
    \/ RemovePageMarkers
    \/ RemoveRepeatedContent
    \/ CleanWhitespaceAndReturn
    \/ CleanAgain
SpecClean == InitClean /\ [][NextClean]_vars

\* chunk_text on a document
InitChunk == StoreInit /\ CleanIdle /\ ChunkInit /\ PipelineIdle /\ IoIdle /\ UploadIdle
NextChunk ==
    \/ ChunkStart
    \/ ChunkParagraph
    \/ ChunkFinal
    \/ ChunkForceSplitAndReturn
    \/ ChunkReturn
SpecChunk == InitChunk /\ [][NextChunk]_vars

\* main --all over a directory of partition files, then again
InitPipeline == PipelineInit /\ CleanIdle /\ ChunkIdle /\ IoIdle /\ UploadIdle
NextPipeline ==
    \/ ImproveFile
    \/ FormatFile
    \/ FixInlineFile
    \/ RestoreFile
    \/ CleanFile
    \/ PipelineAgain
    \/ Tick
SpecPipeline == InitPipeline /\ [][NextPipeline]_vars

\* one write of a JSON file, with a reader alongside
InitIo == StoreInit /\ CleanIdle /\ ChunkIdle /\ PipelineIdle /\ IoInit /\ UploadIdle
NextIo ==
    \/ WriterOpen
    \/ WriterWrite
    \/ WriterClose
    \/ ReaderRead
SpecIo == InitIo /\ [][NextIo]_vars

\* the store, empty at first, under appends that skip duplicates
InitDedup == Init
NextDedup == AppendSkippingCall
SpecDedup == InitDedup /\ [][NextDedup]_vars

\* the store under appends on both partitions
InitPartitions == Init
NextPartitions == AppendAnywhereCall
SpecPartitions == InitPartitions /\ [][NextPartitions]_vars

\* documents uploaded to the application, one after the other
InitUpload == UploadInit /\ CleanIdle /\ ChunkIdle /\ PipelineIdle /\ IoIdle
NextUpload ==
    \/ UploadRequest
    \/ UploadProcess
    \/ UploadProcessFails
    \/ UploadAppend
    \/ UploadAppendFails
    \/ UploadRecord
SpecUpload == InitUpload /\ [][NextUpload]_vars

\* the knowledge store under its calls, then main --all on its directory
InitHashes == Init
\* the arguments the calls of SpecHashes are made with
HashesArguments ==
    CASE last.op = "append" -> last.new_entries \in SeqsUpTo({entry_site, entry_half}, MaxBatch)
      [] last.op = "save" -> last.args \in {<<<<>>>>, <<<<entry_half>>>>}
      [] last.op = "search_knowledge_base" -> last.args = <<<<"H","A","T">>, Integer(1)>>
      [] last.op = "record_document_import" -> last.args = <<"doc1.pdf", "fall", 3>>
      [] last.op = "is_document_imported" -> last.args = <<"doc1.pdf">>
      [] OTHER -> TRUE
\* the calls on the store, made with these arguments before main is started
HashesAppend == pipe_pc = "idle" /\ AppendCall /\ HashesArguments'
HashesSave == pipe_pc = "idle" /\ SaveCall /\ HashesArguments'
HashesLoad == pipe_pc = "idle" /\ LoadCall /\ HashesArguments'
HashesSearch == pipe_pc = "idle" /\ SearchCall /\ HashesArguments'
HashesGetStats == pipe_pc = "idle" /\ GetStatsCall /\ HashesArguments'
HashesCleanAndDeduplicate == pipe_pc = "idle" /\ CleanAndDeduplicateCall /\ HashesArguments'
HashesIsDocumentImported == pipe_pc = "idle" /\ IsDocumentImportedCall /\ HashesArguments'
HashesRecordDocumentImport == pipe_pc = "idle" /\ RecordDocumentImportCall /\ HashesArguments'
NextHashes ==
    \/ HashesAppend
    \/ HashesSave
    \/ HashesLoad
    \/ HashesSearch
    \/ HashesGetStats
    \/ HashesCleanAndDeduplicate
    \/ HashesIsDocumentImported
    \/ HashesRecordDocumentImport
    \/ PipelineStart
    \/ ImproveFile
    \/ FormatFile
    \/ FixInlineFile
    \/ RestoreFile
    \/ CleanFile
SpecHashes == InitHashes /\ [][NextHashes]_vars

(***************************************************************************)
(* Properties of the knowledge store                                       *)
(***************************************************************************)
\* the notions the properties are stated in
Tokens(text) == SeqToSet(str_split(str_lower(text)))
\* Jaccard token similarity >= pct/100; 0 when either token set is empty
JaccardAtLeast(a, b, pct) ==
    IF Tokens(a) = {} \/ Tokens(b) = {} THEN pct <= 0
    ELSE 100 * Cardinality(Tokens(a) \cap Tokens(b)) >= pct * Cardinality(Tokens(a) \cup Tokens(b))
Fingerprint(text) == compute_content_hash(text)
ContentsOf(entries) == [k \in DOMAIN entries |-> entry_get(entries[k], "content")]
CountContent(content, entries) ==
    Cardinality({k \in DOMAIN entries : entry_get(entries[k], "content") = content})
\* content is no duplicate (exact or near) of a record stored in entries
NoStoredDuplicate(content, entries) ==
    \A k \in DOMAIN entries :
        /\ Fingerprint(entry_get(entries[k], "content")) # Fingerprint(content)
        /\ ~JaccardAtLeast(content, entry_get(entries[k], "content"), 50)

\* the last two calls were append(p, [chunk], skip_duplicates=true), twice
AppendedTwice ==
    /\ last.op = "append" /\ repeated.op = "append"
    /\ Len(last.new_entries) = 1 /\ last.skip_duplicates
TwiceContent == entry_get(last.new_entries[1], "content")
TwiceOutcome ==
    /\ CountContent(TwiceContent, kb_files[last.category].entries) = 1
    /\ Len(last.entries_to_add) = 0
    /\ last.skipped_duplicates = 1

\* C1 as stated: if c is no duplicate of a record stored in p, appending
\* [c] to p twice in succession leaves exactly one record with content c,
\* and the second call adds 0 records and counts 1 skipped duplicate.
C1_AsStated ==
    (AppendedTwice /\ NoStoredDuplicate(TwiceContent, repeated.before.entries))
        => TwiceOutcome

\* C1 (amended): the same, provided also that the fingerprint of c is not
\* yet recorded in content_hashes[p] before the first call.
C1_AppendTwiceOneRecord ==
    (/\ AppendedTwice
     /\ NoStoredDuplicate(TwiceContent, repeated.before.entries)
     /\ Fingerprint(TwiceContent) \notin SeqToSet(repeated.hashes_before))
        => TwiceOutcome
C1_Witness ==
    /\ AppendedTwice
    /\ NoStoredDuplicate(TwiceContent, repeated.before.entries)
    /\ Fingerprint(TwiceContent) \notin SeqToSet(repeated.hashes_before)
    /\ Len(repeated.entries_to_add) = 1
    /\ repeated.before.exists /\ Len(repeated.before.entries) = 1

\* one append call, skip_duplicates=true, of two chunks whose contents have
\* Jaccard similarity >= 0.50, on an empty or not yet existing partition
NearPairIntoEmpty ==
    /\ last.op = "append" /\ last.skip_duplicates
    /\ Len(last.new_entries) = 2
    /\ JaccardAtLeast(entry_get(last.new_entries[1], "content"),
                      entry_get(last.new_entries[2], "content"), 50)
    /\ last.before.entries = <<>>
FirstStoredOneSkipped ==
    /\ kb_files[last.category] = File(<<last.new_entries[1]>>)
    /\ last.skipped_duplicates = 1

\* C2 as stated: such a call stores exactly one record, the first chunk of
\* the input, and counts exactly one skipped duplicate.
C2_AsStated == NearPairIntoEmpty => FirstStoredOneSkipped

\* C2 (amended): the same, provided the fingerprint of the first chunk is
\* not already recorded in content_hashes[p].
C2_NearDuplicateInBatch ==
    (/\ NearPairIntoEmpty
     /\ Fingerprint(entry_get(last.new_entries[1], "content"))
            \notin SeqToSet(last.hashes_before))
        => FirstStoredOneSkipped
C2_Witness ==
    /\ NearPairIntoEmpty
    /\ Fingerprint(entry_get(last.new_entries[1], "content")) \notin SeqToSet(last.hashes_before)
    /\ Fingerprint(entry_get(last.new_entries[1], "content"))
           # Fingerprint(entry_get(last.new_entries[2], "content"))
    /\ ~last.before.exists

\* a candidate is valid when title, content and category are present and
\* non-empty after trimming
ValidCandidate(entry) ==
    \A field \in {"title", "content", "category"} :
        field \in DOMAIN entry /\ str_strip(entry[field]) # <<>>

\* C3 as stated: after an append call the partition holds no record that
\* came from a candidate with a missing or empty title, content or category.
C3_AsStated ==
    last.op = "append" =>
        \A k \in DOMAIN last.entries_to_add : ValidCandidate(last.entries_to_add[k])

\* C4 as stated: append returns the pair (number added, number skipped) and
\* added + skipped is the number of candidates.
C4_AsStated ==
    last.op = "append" =>
        /\ last.returned = Tuple(<<Len(last.entries_to_add), last.skipped_duplicates>>)
        /\ Len(last.entries_to_add) + last.skipped_duplicates = Len(last.new_entries)

\* C4 (amended): append returns nothing; it prints the number of records
\* added and, when it is not zero, the number skipped; added + skipped is
\* the number of candidates, and the partition grows by the number added.
C4_AppendCountsEveryCandidate ==
    last.op = "append" =>
        /\ last.returned = None
        /\ Len(last.entries_to_add) + last.skipped_duplicates = Len(last.new_entries)
        /\ Len(kb_files[last.category].entries)
               = Len(last.before.entries) + Len(last.entries_to_add)
        /\ last.printed[Len(last.printed)] = [msg |-> "Appended", n |-> Len(last.entries_to_add)]
        /\ last.skipped_duplicates > 0
               => last.printed[1] = [msg |-> "Skipped", n |-> last.skipped_duplicates]
        /\ last.skipped_duplicates = 0 => Len(last.printed) = 1
C4_Witness ==
    /\ last.op = "append" /\ last.skip_duplicates
    /\ Len(last.new_entries) = 2
    /\ Len(last.entries_to_add) = 1 /\ last.skipped_duplicates = 1
    /\ last.before.entries # <<>>

\* C5: is_content_duplicate(content, partition, threshold) is true exactly
\* when the fingerprint of content is recorded in content_hashes[partition]
\* or a record stored in the partition has Jaccard similarity >= threshold
\* with content; a missing partition file contributes nothing (no error).
C5_IsDuplicateIff ==
    last.op = "is_content_duplicate" =>
        (last.returned.type = "bool" /\ last.returned.value <=>
            \/ Fingerprint(last.content) \in SeqToSet(content_hashes[last.category])
            \/ \E k \in DOMAIN kb_files[last.category].entries :
                   JaccardAtLeast(last.content,
                                  entry_get(kb_files[last.category].entries[k], "content"),
                                  last.similarity_threshold))
\* the query is answered by the similarity scan alone, at exactly 0.50,
\* and another one is answered false for a partition without a file
C5_Witness ==
    /\ last.op = "is_content_duplicate"
    /\ last.returned = Bool(TRUE)
    /\ last.content = content_half
    /\ last.similarity_threshold = DefaultThreshold
    /\ content_hash(last.content) \notin SeqToSet(content_hashes[last.category])
C5_WitnessNoFile ==
    /\ last.op = "is_content_duplicate"
    /\ last.returned = Bool(FALSE)
    /\ ~kb_files[last.category].exists

(***************************************************************************)
(* Properties of the cleaner and the chunker                               *)
(***************************************************************************)
\* the text has at least one blank-line paragraph break
HasParagraphBreak(text) == str_contains(text, <<"\n", "\n">>)
CleanedTwice == clean_pc = "returned" /\ Len(clean_calls) = 2

\* C6: in the chunks chunk_text returns, no chunk but possibly the last is
\* longer than max_chunk_size when the forced split did not run, and no chunk
\* at all is longer when it ran.
C6_AsStated ==
    chunk_pc = "returned" =>
        \A k \in DOMAIN chunk_list :
            (chunk_force_split_ran \/ k < Len(chunk_list))
                => Len(chunk_list[k].content) <= max_chunk_size

\* C7: clean_text is idempotent: on a text with a blank-line paragraph
\* structure, cleaning the cleaned text returns the cleaned text.
C7_AsStated ==
    (CleanedTwice /\ HasParagraphBreak(clean_calls[1].text))
        => clean_calls[2].returned = clean_calls[1].returned

(***************************************************************************)
(* Properties of the pipeline and of the file writes                       *)
(***************************************************************************)
\* C8: whenever a stage writes a partition file, it has copied the file as it
\* was before the stage to backups/ earlier in the same call.
C8_AsStated ==
    pipe_last # NoCall =>
        \A k \in DOMAIN pipe_last.events :
            pipe_last.events[k].op = "write" =>
                \E j \in 1..(k - 1) :
                    /\ pipe_last.events[j].op = "copy2"
                    /\ pipe_last.events[j].entries = pipe_last.before

\* C9: a second run of all stages over the directory changes no partition
\* file.
C9_AsStated ==
    (pipe_pc = "done" /\ Len(pipe_after) = 2) => pipe_after[2] = pipe_after[1]

\* C10: a reader never sees a torn file: what it reads is the complete text
\* the file held before the write or the complete text written.
C10_AsStated ==
    io_seen # NoCall =>
        \/ io_seen.content = io_old[io_seen.path]
        \/ io_seen.path = io_call.path /\ io_seen.content = json_chunks(io_call.data)

(***************************************************************************)
(* Properties of the other operations of the knowledge store               *)
(***************************************************************************)
\* the (lowercased, trimmed) title/content pair of a record
LoweredTrimmedPair(entry) ==
    <<str_strip(str_lower(entry.title)), str_strip(str_lower(entry.content))>>
\* the positions of the records of a list that are valid and whose pair no
\* valid record before them has
FirstOccurrences(entries) ==
    {i \in DOMAIN entries :
        /\ validate_entry(entries[i])
        /\ \A j \in 1..(i - 1) :
               validate_entry(entries[j]) =>
                   LoweredTrimmedPair(entries[j]) # LoweredTrimmedPair(entries[i])}
\* the k-th smallest position of a set of positions
KthOf(positions, k) ==
    CHOOSE i \in positions : Cardinality({j \in positions : j < i}) = k - 1
CleanedNormally == last.op = "clean_and_deduplicate" /\ last.returned.type = "int"

\* C11: after clean_and_deduplicate(partition) every stored record has a
\* non-empty title, content and category, no two stored records have the same
\* (lowercased, trimmed) title/content pair, the stored records are the first
\* occurrences among the valid records in their original order, the returned
\* number is the number of stored records, and the file is rewritten only if a
\* record was removed.
C11_CleanAndDeduplicate ==
    CleanedNormally =>
        LET stored == kb_files[last.category].entries
            before == last.before.entries
            kept == FirstOccurrences(before)
        IN  /\ \A k \in DOMAIN stored :
                   \A field \in {"title", "content", "category"} :
                       field \in DOMAIN stored[k] /\ stored[k][field] # <<>>
            /\ \A k, m \in DOMAIN stored :
                   k # m => LoweredTrimmedPair(stored[k]) # LoweredTrimmedPair(stored[m])
            /\ Len(stored) = Cardinality(kept)
            /\ \A k \in DOMAIN stored : stored[k] = before[KthOf(kept, k)]
            /\ last.returned = Integer(Len(stored))
            /\ last.saved => Len(stored) < Len(before)
            /\ ~last.saved => kb_files[last.category] = last.before

\* a partition of an invalid record, a record and its copy up to case and
\* outer spaces was cleaned: the first record of the pair is what is left
C11_Witness ==
    /\ CleanedNormally
    /\ last.before.entries = <<entry_blank_title, entry_site, entry_shout>>
    /\ last.saved
    /\ kb_files[last.category].entries = <<entry_site>>
    /\ last.returned = Integer(1)
\* a partition with nothing to remove was cleaned and not rewritten
C11_WitnessNotRewritten ==
    /\ CleanedNormally
    /\ last.before.entries = <<entry_shout, entry_quoted>>
    /\ ~last.saved
    /\ last.returned = Integer(2)

\* the records of a list whose title or content contains the query, compared
\* without case
Matching(entries, query) ==
    LET matches(entry) ==
            \/ str_contains(str_lower(entry.title), str_lower(query))
            \/ str_contains(str_lower(entry.content), str_lower(query))
    IN  SelectSeq(entries, matches)
Searched == last.op = "search_knowledge_base" /\ last.returned.type = "list"

\* C12: search(partition, query, limit) returns the records whose title or
\* content contains the query without regard to case, in partition order, and
\* with a limit (0 included) the first limit of them at most.
C12_AsStated ==
    Searched =>
        LET matching == Matching(last.before.entries, last.args[1])
            limit == last.args[2]
        IN  last.returned.items =
                IF limit = None \/ limit.value >= Len(matching) THEN matching
                ELSE SubSeq(matching, 1, limit.value)

\* the file names a step records: the one of record_document_import, when the
\* step is that call
RecordedBy(call) == IF call.op = "record_document_import" THEN {call.filename} ELSE {}
\* a step changes the imported documents only by the entry of the file name it
\* records, which it sets to the record of the call
RecordsOnlyItsFilename ==
    /\ DOMAIN imported_documents' = DOMAIN imported_documents \cup RecordedBy(last')
    /\ \A f \in DOMAIN imported_documents' :
           imported_documents'[f] =
               IF f \in RecordedBy(last') THEN last'.record ELSE imported_documents[f]
AnswersFromRecorded ==
    last.op = "is_document_imported" =>
        last.returned = Bool(last.filename \in DOMAIN imported_documents)
RecordedStaysImported(f) ==
    [](f \in RecordedBy(last) =>
          []((last.op = "is_document_imported" /\ last.filename = f)
                 => last.returned = Bool(TRUE)))

\* C13: on one store directory is_imported(f) returns true exactly when
\* record_import(f, _, _) was called before: no file name is imported at the
\* start, a step adds only the file name it records (replacing its one entry)
\* and removes none, every answer is whether the file name has an entry, and
\* once a file name is recorded every later answer for it is true.
C13_ImportedIffRecorded ==
    /\ imported_documents = NoDocuments
    /\ [][RecordsOnlyItsFilename]_vars
    /\ []AnswersFromRecorded
    /\ \A f \in Filenames : RecordedStaysImported(f)

\* doc1.pdf was recorded with 7 chunks, then recorded again with 3, doc2.pdf
\* never: the question for doc1.pdf is answered true
C13_Witness ==
    /\ last.op = "is_document_imported"
    /\ last.filename = "doc1.pdf"
    /\ last.returned = Bool(TRUE)
    /\ DOMAIN imported_documents = {"doc1.pdf"}
    /\ imported_documents["doc1.pdf"].chunks_added = 3
\* and the question for doc2.pdf is answered false
C13_WitnessOther ==
    /\ last.op = "is_document_imported"
    /\ last.filename = "doc2.pdf"
    /\ last.returned = Bool(FALSE)
    /\ DOMAIN imported_documents = {"doc1.pdf"}
    /\ imported_documents["doc1.pdf"].chunks_added = 7

\* the last call found no file for its partition
CalledOnMissing ==
    /\ last.op # "none"
    /\ IF "before" \in DOMAIN last THEN ~last.before.exists
       ELSE ~kb_files[last.category].exists
LoadsFirst == {"load_knowledge_base", "search_knowledge_base", "get_stats",
               "clean_and_deduplicate"}

C14_WitnessAppend ==
    /\ CalledOnMissing
    /\ last.op = "append"
    /\ kb_files[last.category] = File(<<entry_site>>)

AllValid(entries) == \A k \in DOMAIN entries : validate_entry(entries[k])
\* after save(p, records) the file of p holds the records and nothing else
SaveReplaces ==
    last.op = "save" => kb_files[last.category] = File(last.args[1])
\* a step from save(p, records), of valid records, that is load(p) returns a
\* list equal to records
SaveThenLoad ==
    (/\ last.op = "save"
     /\ AllValid(last.args[1])
     /\ last'.op = "load_knowledge_base"
     /\ last'.category = last.category)
        => last'.returned = List(last.args[1])

\* C15: save(p, records) followed by load(p) returns a list equal to records,
\* in the same order and with the same fields and values in every record, for
\* valid records; save replaces whatever the partition held.
C15_SaveLoadRoundTrip ==
    /\ []SaveReplaces
    /\ [][SaveThenLoad]_vars

\* records with quotes, a backslash, a line break, a character that is not
\* ASCII and a list of keywords were saved over other records and loaded
C15_Witness ==
    /\ last.op = "load_knowledge_base"
    /\ last.before = File(<<entry_quoted, entry_shout>>)
    /\ last.returned = List(<<entry_quoted, entry_shout>>)

(***************************************************************************)
(* Properties of the pipeline on a file that does not parse                *)
(***************************************************************************)
\* a step of a stage on the file at the current position of main
StageStep ==
    /\ pipe_pc = "run"
    /\ <<pipe_stage, pipe_file, pipe_pc>>' # <<pipe_stage, pipe_file, pipe_pc>>
\* the lines that report a file as skipped
SkipMessages == {"Skipping: failed to parse JSON", "Skipping: JSON load error",
                 "Skipping: failed to read JSON", "No backup found; skipping"}
\* main goes on with the next file of the stage, then with the next stage,
\* and ends after the last file of the last stage
GoesOn ==
    IF pipe_file < Len(pipe_files)
    THEN pipe_pc' = "run" /\ pipe_stage' = pipe_stage /\ pipe_file' = pipe_file + 1
    ELSE IF pipe_stage < Len(stages)
    THEN pipe_pc' = "run" /\ pipe_stage' = pipe_stage + 1 /\ pipe_file' = 1
    ELSE pipe_pc' = "done"
\* a stage on the truncated file: no file and no backup changes, the file is
\* named in a line that reports it skipped, and main goes on
SkipsUnparseable ==
    (StageStep /\ kb_files[pipe_files[pipe_file]] = TruncatedFile) =>
        /\ kb_files' = kb_files
        /\ backups' = backups
        /\ pipe_last'.stage = stages[pipe_stage]
        /\ pipe_last'.printed.path = pipe_files[pipe_file]
        /\ pipe_last'.printed.message \in SkipMessages
        /\ GoesOn
\* what a stage makes of the entries of a file
StageEntries(stage, data) ==
    [k \in DOMAIN data |->
        CASE stage = "improve" -> improve_entry(data[k])
          [] stage = "format" -> format_entry(data[k])
          [] stage = "fix_inline" -> fix_inline_entry(data[k])
          [] stage = "clean" -> clean_entry(data[k])]
\* a stage on the other file of a directory that holds the truncated file:
\* the file is left with the entries the stage makes of it, the truncated
\* file is untouched, and main goes on
ProcessesTheOthers ==
    (/\ StageStep
     /\ \E q \in Partitions : kb_files[q] = TruncatedFile
     /\ kb_files[pipe_files[pipe_file]] # TruncatedFile) =>
        /\ stages[pipe_stage] # "restore" =>
               kb_files'[pipe_files[pipe_file]].entries =
                   StageEntries(stages[pipe_stage], kb_files[pipe_files[pipe_file]].entries)
        /\ pipe_last'.printed.path = pipe_files[pipe_file]
        /\ pipe_last'.printed.message \notin SkipMessages \ {"No backup found; skipping"}
        /\ \A q \in Partitions : kb_files[q] = TruncatedFile => kb_files'[q] = TruncatedFile
        /\ GoesOn
NoBackupOfUnparseable ==
    \A q \in Partitions :
        kb_files[q] = TruncatedFile => \A b \in backups : b.base # q

PersistedHashes(kb_file) ==
    {content_hash(entry_get(kb_file.entries[k], "content")) : k \in DOMAIN kb_file.entries}

\* C17: in every state, also the one a failed append leaves, content_hashes[p]
\* holds a fingerprint only of a content persisted into partition p, and the
\* fingerprint of every record append persisted. (No call of this
\* specification removes a record, so the records persisted at some point are
\* the records of the file.)
C17_AsStated ==
    \A p \in Partitions :
        {content_hashes[p][i] : i \in DOMAIN content_hashes[p]} = PersistedHashes(kb_files[p])

(***************************************************************************)
(* Properties of the chunker at headers, at target size and at the floors  *)
(***************************************************************************)
\* C18: when chunk_text has met a section header, the buffer is empty,
\* whether or not it was long enough to be closed as a chunk (so no paragraph
\* from before the header gets into a chunk the header titles).
C18_AsStated ==
    (/\ chunk_pc = "loop"
     /\ chunk_i > 1
     /\ is_section_header(chunk_paragraphs[chunk_i - 1]))
        => chunk_current = <<>>

\* the buffer once the paragraph at chunk_i is added to it
BufferWithParagraph ==
    (IF chunk_current # <<>> THEN chunk_current \o <<"\n", "\n">> ELSE <<>>)
        \o chunk_paragraphs[chunk_i]
\* the paragraph at chunk_i is followed by a header, or by a paragraph that
\* is no list item while it is none itself, or it ends a list
GoodBreakPoint ==
    /\ chunk_i + 1 <= Len(chunk_paragraphs)
    /\ LET para == chunk_paragraphs[chunk_i]
           next_para == chunk_paragraphs[chunk_i + 1]
       IN  \/ is_section_header(next_para)
           \/ ~is_list_item(para) /\ ~is_list_item(next_para)
           \/ is_list_item(para) /\ ~is_list_item(next_para)
\* an iteration of the loop on a paragraph that is no header and brings the
\* buffer to target size, below the maximum
AtTargetSize ==
    /\ chunk_pc = "loop"
    /\ chunk_i <= Len(chunk_paragraphs)
    /\ chunk_i' = chunk_i + 1
    /\ ~is_section_header(chunk_paragraphs[chunk_i])
    /\ Len(BufferWithParagraph) >= target_chunk_size
    /\ Len(BufferWithParagraph) < max_chunk_size
ClosedExactlyAtBreakPoints ==
    AtTargetSize =>
        IF GoodBreakPoint
        THEN /\ Len(chunk_list') = Len(chunk_list) + 1
             /\ SubSeq(chunk_list', 1, Len(chunk_list)) = chunk_list
             /\ chunk_list'[Len(chunk_list')].content = BufferWithParagraph
             /\ chunk_list'[Len(chunk_list')].title = chunk_title
             /\ chunk_current' = <<>>
        ELSE /\ chunk_list' = chunk_list
             /\ chunk_current' = BufferWithParagraph

\* C19: while the buffer, after a paragraph is added, is at least target
\* (500) and below max (800) long, chunk_text closes a chunk there exactly
\* when the next paragraph is a section header, or neither the paragraph nor
\* the next is a list item, or the paragraph is a list item and the next is
\* not; otherwise the buffer goes on.
C19_SplitAtTargetSize == [][ClosedExactlyAtBreakPoints]_vars

\* a buffer of 542 characters was closed after the list item that ends a list
C19_Witness ==
    /\ chunk_pc = "loop"
    /\ chunk_paragraphs = <<para_458, para_list, para_harness>>
    /\ chunk_i = 3
    /\ Len(chunk_list) = 1
    /\ Len(chunk_list[1].content) = 542
    /\ chunk_current = <<>>
\* a buffer of 542 characters was kept open between two list items
C19_WitnessInsideList ==
    /\ chunk_pc = "loop"
    /\ chunk_paragraphs = <<para_458, para_list, para_list>>
    /\ chunk_i = 3
    /\ chunk_list = <<>>
    /\ Len(chunk_current) = 542
\* and before a list that follows a paragraph that is no list item
C19_WitnessBeforeList ==
    /\ chunk_pc = "loop"
    /\ chunk_paragraphs = <<para_254, para_254, para_list>>
    /\ chunk_i = 3
    /\ chunk_list = <<>>
    /\ Len(chunk_current) = 510

\* C20: every chunk chunk_text returns is at least min_chunk_size * 0.4 (80)
\* characters long, and every chunk closed before the end of the document (a
\* chunk that is not the last) at least min_chunk_size * 0.5 (100), the parts
\* of the forced split included.
C20_AsStated ==
    chunk_pc = "returned" =>
        \A k \in DOMAIN chunk_list :
            /\ 10 * Len(chunk_list[k].content) >= 4 * min_chunk_size
            /\ k < Len(chunk_list) => 2 * Len(chunk_list[k].content) >= min_chunk_size

(***************************************************************************)
(* Properties of the steps of clean_text                                   *)
(***************************************************************************)
UnwantedHeader(para) == is_unwanted_section_header(str_lower(str_strip(para)))
\* a section header that is no unwanted header
RealHeader(para) == is_section_header(para) /\ ~UnwantedHeader(para)
\* the positions of the paragraphs outside every skip region: those that are
\* no unwanted header and, when an unwanted header precedes them, have a real
\* header after the last such header and not after themselves
OutsideSkipRegions(paragraphs) ==
    {i \in DOMAIN paragraphs :
        /\ ~UnwantedHeader(paragraphs[i])
        /\ LET before == {j \in 1..(i - 1) : UnwantedHeader(paragraphs[j])}
           IN  before # {} =>
                   \E k \in (SetMax(before) + 1)..i : RealHeader(paragraphs[k])}
SectionsStep == clean_pc = "sections" /\ clean_pc' = "filter"
SectionsKeepsOutsideSkipRegions ==
    SectionsStep =>
        LET paragraphs == str_split_on(clean_work, <<"\n", "\n">>)
        IN  clean_work' = str_join(<<"\n", "\n">>,
                                  SelectIdx(paragraphs, OutsideSkipRegions(paragraphs), 1))

\* C21: the section-removal step of clean_text drops every paragraph that
\* matches an unwanted-section header, and every paragraph after it up to the
\* first section header that is no unwanted header, which is kept; all other
\* paragraphs are kept, in order.
C21_SkipRegions == [][SectionsKeepsOutsideSkipRegions]_vars

\* the step ran on "TABLE OF CONTENTS", the harness sentence and "FALL
\* PROTECTION": the header alone is left
C21_Witness ==
    /\ clean_pc = "filter"
    /\ clean_arg = str_join(<<"\n", "\n">>, <<para_contents, para_harness, para_header>>)
    /\ clean_work = para_header
\* a paragraph before the unwanted header is kept, one after it dropped
C21_WitnessBefore ==
    /\ clean_pc = "filter"
    /\ clean_arg = str_join(<<"\n", "\n">>, <<para_harness, para_contents, para_list>>)
    /\ clean_work = para_harness

FilterStep == clean_pc = "filter" /\ clean_pc' = "markers"
FilterKeepsHeaders ==
    FilterStep =>
        LET paragraphs == str_split_on(clean_work, <<"\n", "\n">>)
            filtered == str_split_on(clean_work', <<"\n", "\n">>)
        IN  \A i \in DOMAIN paragraphs :
                is_section_header(str_strip(paragraphs[i])) =>
                    \E j \in DOMAIN filtered : filtered[j] = paragraphs[i]

\* C22: the paragraph-filtering step of clean_text keeps every paragraph that
\* is a section header, also one that matches a boilerplate phrase or is
\* shorter than 15 characters.
C22_AsStated == [][FilterKeepsHeaders]_vars

(***************************************************************************)
(* Properties of the normalize-fields stage (improve_file)                 *)
(***************************************************************************)
\* a step of improve_file on a file that parses
ImproveStep ==
    /\ StageStep
    /\ stages[pipe_stage] = "improve"
    /\ kb_files[pipe_files[pipe_file]].exists
    /\ "text" \notin DOMAIN kb_files[pipe_files[pipe_file]]
\* the content after differs from the content before only in the whitespace
\* at the end of its lines
OnlyTrailingWhitespaceRemoved(before, after) ==
    LET lines == str_splitlines(before)
        cleaned == str_splitlines(after)
    IN  /\ Len(cleaned) = Len(lines)
        /\ \A i \in DOMAIN lines : cleaned[i] = str_rstrip(lines[i])
\* a field the record has is left with its value
FieldKept(before, after, field) ==
    field \in DOMAIN before => (field \in DOMAIN after /\ after[field] = before[field])
ImproveTrimsLineEndsOnly ==
    ImproveStep =>
        LET data == kb_files[pipe_files[pipe_file]].entries
            improved == kb_files'[pipe_files[pipe_file]].entries
        IN  /\ Len(improved) = Len(data)
            /\ \A k \in DOMAIN data :
                   /\ OnlyTrailingWhitespaceRemoved(data[k].content, improved[k].content)
                   /\ FieldKept(data[k], improved[k], "source")
                   /\ FieldKept(data[k], improved[k], "keywords")

\* C23: the normalize-fields stage changes the content of a record only by
\* removing the whitespace at the end of its lines (the whitespace at the
\* start of a line, the order of the lines and every other character stay),
\* and it never overwrites a source or keywords field the record has.
C23_AsStated == [][ImproveTrimsLineEndsOnly]_vars

(***************************************************************************)
(* Properties of the recorded content hashes                               *)
(***************************************************************************)
\* a step that leaves the recorded hashes of some partition changed
HashesStep == content_hashes' # content_hashes
\* the step is a call of append_to_knowledge_base
AppendStep ==
    /\ last'.op = "append"
    /\ last'.hashes_before = content_hashes[last'.category]
    /\ last'.before = kb_files[last'.category]
    /\ pipeVars' = pipeVars
\* the list after starts with the list before
Extends(before, after) ==
    /\ Len(after) >= Len(before)
    /\ SubSeq(after, 1, Len(before)) = before
HashesWrittenByAppendOnly == HashesStep => AppendStep
HashesOnlyGrow == \A p \in Partitions : Extends(content_hashes[p], content_hashes'[p])

\* C24: only append_to_knowledge_base changes content_hashes; load, save,
\* search, get_stats, clean_and_deduplicate, is_document_imported,
\* record_document_import and the stages of the pipeline leave it as it is, and
\* the list of a partition only grows: hashes are added, none is removed.
C24_HashesOnlyGrowByAppend ==
    [][HashesWrittenByAppendOnly /\ HashesOnlyGrow]_vars
\* hashes are recorded, a document is recorded, the pipeline has rewritten
\* the partition file and the store has been cleaned since
C24_Witness ==
    /\ content_hashes["fall"] # <<>>
    /\ imported_documents # NoDocuments
    /\ pipe_pc = "done"
    /\ \E b \in backups : TRUE
    /\ last.op = "clean_and_deduplicate"
\* an append has added a hash to the hashes recorded before
C24_WitnessGrown ==
    /\ last.op = "append"
    /\ last.hashes_before # <<>>
    /\ Len(content_hashes[last.category]) > Len(last.hashes_before)

(***************************************************************************)
(* Properties of a store filled by appends that skip duplicates            *)
(***************************************************************************)
\* two records at different positions of a partition are neither exact nor
\* near duplicates of each other
PairwiseDistinct(entries) ==
    \A i, j \in DOMAIN entries :
        i < j =>
            /\ Fingerprint(entry_get(entries[i], "content"))
                   # Fingerprint(entry_get(entries[j], "content"))
            /\ ~JaccardAtLeast(entry_get(entries[i], "content"),
                               entry_get(entries[j], "content"), 50)

\* C25: in a store that was empty at first and has seen only appends with
\* skip_duplicates = true, any two distinct records of one partition have
\* different fingerprints and a Jaccard token similarity below 0.50.
C25_NoDuplicatesStored == \A p \in Partitions : PairwiseDistinct(kb_files[p].entries)
\* a partition holds two records, and the last append skipped a candidate
C25_Witness ==
    /\ last.op = "append"
    /\ last.skipped_duplicates > 0
    /\ Len(kb_files[last.category].entries) = 2
\* a candidate was skipped as the near duplicate of a record stored by an
\* earlier call
C25_WitnessNear ==
    /\ last.op = "append"
    /\ last.before.exists
    /\ last.skipped_duplicates > 0
    /\ \E k \in DOMAIN last.new_entries :
           /\ Fingerprint(entry_get(last.new_entries[k], "content")) \notin SeqToSet(content_hashes[last.category])
           /\ \E i \in DOMAIN last.before.entries :
                  JaccardAtLeast(entry_get(last.new_entries[k], "content"),
                                 entry_get(last.before.entries[i], "content"), 50)

(***************************************************************************)
(* Properties of append_to_knowledge_base on the records already stored    *)
(***************************************************************************)
\* a step of append_to_knowledge_base on partition p
AppendedTo(p) ==
    /\ last'.op = "append"
    /\ last'.category = p
    /\ last'.before = kb_files[p]
\* the chunks of new_entries at the positions of some set, in input order
InputOrderSelections(new_entries) ==
    {SelectIdx(new_entries, S, 1) : S \in SUBSET DOMAIN new_entries}
\* the partition after the call: the records before it, untouched and in
\* their order, then chunks of the batch in input order; all of the batch
\* when duplicates are not skipped
StoredRecordsKept ==
    \A p \in Partitions :
        AppendedTo(p) =>
            /\ kb_files'[p].exists
            /\ Len(kb_files'[p].entries) >= Len(kb_files[p].entries)
            /\ SubSeq(kb_files'[p].entries, 1, Len(kb_files[p].entries)) = kb_files[p].entries
            /\ SubSeq(kb_files'[p].entries, Len(kb_files[p].entries) + 1, Len(kb_files'[p].entries))
                   \in InputOrderSelections(last'.new_entries)
            /\ Len(kb_files'[p].entries) - Len(kb_files[p].entries)
                   = last'.printed[Len(last'.printed)].n
            /\ ~last'.skip_duplicates =>
                   kb_files'[p].entries = kb_files[p].entries \o last'.new_entries

\* C26: append_to_knowledge_base never modifies, removes or reorders the
\* records already stored: the partition after the call is the partition
\* before the call followed by the accepted chunks in their input order.
C26_AppendKeepsStored == [][StoredRecordsKept]_vars
\* an append has added a chunk behind a stored record and skipped another
C26_Witness ==
    /\ last.op = "append"
    /\ last.before.exists /\ last.before.entries # <<>>
    /\ last.skipped_duplicates > 0
    /\ Len(kb_files[last.category].entries) > Len(last.before.entries)
\* an append has added two chunks of a batch and skipped none
C26_WitnessTwo ==
    /\ last.op = "append"
    /\ last.skip_duplicates
    /\ Len(kb_files[last.category].entries) = Len(last.before.entries) + 2

(***************************************************************************)
(* Properties of append_to_knowledge_base across partitions                *)
(***************************************************************************)
\* content has an exact or a near duplicate among entries
StoredDuplicate(content, entries) == ~NoStoredDuplicate(content, entries)
\* an append on p leaves the file and the recorded hashes of the others
OtherPartitionsUntouched ==
    \A p \in Partitions :
        AppendedTo(p) =>
            \A q \in Partitions \ {p} :
                /\ kb_files'[q] = kb_files[q]
                /\ content_hashes'[q] = content_hashes[q]
\* chunk k of the batch is among the records the call has added to p
AddedTo(p, k) ==
    \E i \in (Len(kb_files[p].entries) + 1)..Len(kb_files'[p].entries) :
        kb_files'[p].entries[i] = last'.new_entries[k]
\* a chunk whose content is stored in another partition is added to p when
\* neither p nor the chunks before it in the batch hold a duplicate of it
StoredElsewhereStillAccepted ==
    \A p \in Partitions :
        (AppendedTo(p) /\ last'.skip_duplicates) =>
            \A k \in DOMAIN last'.new_entries :
                LET content == entry_get(last'.new_entries[k], "content")
                IN  (/\ \E q \in Partitions \ {p} : StoredDuplicate(content, kb_files[q].entries)
                     /\ NoStoredDuplicate(content, kb_files[p].entries)
                     /\ NoStoredDuplicate(content, SubSeq(last'.new_entries, 1, k - 1)))
                        => AddedTo(p, k)

ParagraphsOf(text) == StripAll(str_split_on(text, <<"\n", "\n">>))
\* the paragraphs of the document that are no section headers, in order
BodyParagraphs ==
    LET paragraphs == ParagraphsOf(chunk_args.text)
    IN  SelectIdx(paragraphs, {i \in DOMAIN paragraphs : ~is_section_header(paragraphs[i])}, 1)
\* the paragraphs of the chunks, chunk after chunk
RECURSIVE ChunkedParagraphs(_)
ChunkedParagraphs(chunks) ==
    IF chunks = <<>> THEN <<>>
    ELSE ParagraphsOf(chunks[1].content) \o ChunkedParagraphs(Tail(chunks))
\* sub is what is left of seq when some of its members are taken out
RECURSIVE IsSubsequence(_, _)
IsSubsequence(sub, seq) ==
    IF sub = <<>> THEN TRUE
    ELSE IF seq = <<>> THEN FALSE
    ELSE IF sub[1] = seq[1] THEN IsSubsequence(Tail(sub), Tail(seq))
    ELSE IsSubsequence(sub, Tail(seq))

\* C28: the chunks divide a subsequence of the paragraphs of the document that
\* are no section headers: each such paragraph is in at most one chunk, the
\* paragraphs keep their order within and across the chunks, and no section
\* header is a paragraph of a chunk's content; also after the forced split.
C28_ChunksDivideBody ==
    /\ IsSubsequence(ChunkedParagraphs(chunk_list), BodyParagraphs)
    /\ \A k \in DOMAIN chunk_list :
           \A i \in DOMAIN ParagraphsOf(chunk_list[k].content) :
               ~is_section_header(ParagraphsOf(chunk_list[k].content)[i])
\* chunk_text has returned two chunks or more of a document with a section
\* header between two paragraphs
C28_Witness ==
    /\ chunk_pc = "returned"
    /\ Len(chunk_list) >= 2
    /\ LET paragraphs == ParagraphsOf(chunk_args.text)
       IN  /\ Len(paragraphs) = 3
           /\ is_section_header(paragraphs[2])
           /\ ~is_section_header(paragraphs[1])
\* the forced split has run on a chunk of two paragraphs
C28_WitnessForced ==
    /\ chunk_pc = "returned"
    /\ chunk_force_split_ran
    /\ \E k \in DOMAIN chunk_list : Len(ParagraphsOf(chunk_list[k].content)) = 2
\* a paragraph of the document is in no chunk
C28_WitnessLeftOut ==
    /\ chunk_pc = "returned"
    /\ Len(ChunkedParagraphs(chunk_list)) < Len(BodyParagraphs)

(***************************************************************************)
(* Properties of the fields of a chunk                                     *)
(***************************************************************************)
\* the field is there and is not empty once trimmed
FieldFilled(entry, field) ==
    /\ field \in DOMAIN entry
    /\ str_strip(entry[field]) # <<>>
\* every chunk has a title, a content and a category, and validate_entry
\* accepts it
ChunksAreValid ==
    \A k \in DOMAIN chunk_list :
        /\ FieldFilled(chunk_list[k], "title")
        /\ FieldFilled(chunk_list[k], "content")
        /\ FieldFilled(chunk_list[k], "category")
        /\ validate_entry(chunk_list[k])

\* C29 as stated: every chunk of chunk_text called with a non-empty partition
\* argument has a title, a content and a category that are not empty after
\* trimming, so that it passes validate_entry.
C29_AsStated == chunk_args.category # <<>> => ChunksAreValid

\* C29 (amended): the same for a partition argument that is not empty after
\* trimming; the category of a chunk is the argument as it was passed.
C29_ChunksAreValid == str_strip(chunk_args.category) # <<>> => ChunksAreValid
\* chunk_text has returned chunks under the first title, under a header of
\* the document and under a part title of the forced split
C29_Witness ==
    /\ chunk_pc = "returned"
    /\ str_strip(chunk_args.category) # <<>>
    /\ Len(chunk_list) >= 2
    /\ \E k \in DOMAIN chunk_list : chunk_list[k].title # first_title
\* the forced split has numbered a part
C29_WitnessPart ==
    /\ chunk_pc = "returned"
    /\ str_strip(chunk_args.category) # <<>>
    /\ chunk_force_split_ran
    /\ \E k \in DOMAIN chunk_list :
           chunk_list[k].title = part_title(first_title, 2)

(***************************************************************************)
(* Properties of the upload flow                                           *)
(***************************************************************************)
\* the partition files and the import metadata
StoredState == [kb_files |-> kb_files, content_hashes |-> content_hashes,
                imported_documents |-> imported_documents]
\* the button was pressed on a file that was recorded as imported then
RequestedImported ==
    /\ upload_pc # "idle"
    /\ upload_name \in DOMAIN upload_before.imported_documents
\* nothing was extracted, chunked or appended, and the files are as they were
SkipsImported ==
    RequestedImported =>
        /\ upload_pc = "skipped"
        /\ upload_log = <<>>
        /\ StoredState = upload_before
\* every append of the flow has been made and has returned: one for each
\* partition that got chunks and whose base file exists, none has raised
AllAppendsReturned ==
    /\ \A i \in DOMAIN upload_log : upload_log[i].outcome # "raised"
    /\ \A p \in Partitions :
           (upload_chunks[p] # <<>> /\ upload_before.kb_files[p].exists) =>
               \E i \in DOMAIN upload_log :
                   /\ upload_log[i].op = "append"
                   /\ upload_log[i].category = p
                   /\ upload_log[i].outcome = "returned"
\* a step that records a file name, or replaces its record, records the
\* uploaded file after the appends
RecordsAfterAppends ==
    \A f \in DOMAIN imported_documents' :
        (f \notin DOMAIN imported_documents \/ imported_documents'[f] # imported_documents[f]) =>
            /\ f = upload_name
            /\ \E i \in DOMAIN upload_log : upload_log[i].op = "process_document"
            /\ AllAppendsReturned
\* a flow that failed has recorded nothing
FailedNotRecorded ==
    upload_pc = "failed" => imported_documents = upload_before.imported_documents

\* C30: when the file is recorded as imported at the moment the processing is
\* requested, nothing is extracted, chunked or appended and every partition
\* file and the import metadata stay as they are; a file name is recorded as
\* imported only after all appends of its chunks, partition by partition,
\* have returned without error.
C30_UploadFlow == []SkipsImported /\ [][RecordsAfterAppends]_vars /\ []FailedNotRecorded
\* a document is uploaded again after it was recorded with records stored
C30_Witness ==
    /\ upload_pc = "skipped"
    /\ \E p \in Partitions : kb_files[p].entries # <<>>
    /\ imported_documents[upload_name].chunks_added > 0
\* the append on the second partition has raised after the append on the
\* first has returned
C30_WitnessFailed ==
    /\ upload_pc = "failed"
    /\ Len(upload_log) = 3
    /\ upload_log[2].outcome = "returned"
    /\ upload_log[3].op = "append"
    /\ upload_name \notin DOMAIN imported_documents
\* a document was recorded after appends on both partitions
C30_WitnessRecorded ==
    /\ upload_pc = "done"
    /\ upload_total_saved = 2
    /\ upload_name \in DOMAIN imported_documents

====
